---- MODULE Spec2Model ----
(***************************************************************************)
(* Channel-constrained shortest path search (routing and spectrum          *)
(* assignment).  The module models the graph classes of the repository as  *)
(* state machines:                                                         *)
(*   - ChannelGraph of src/ChannelGraph.cpp            (impl = "CG")       *)
(*   - ChannelGraph of src/ChannelGraph2.cpp           (impl = "CG2")      *)
(*   - OptimizedEfficientGraph of                                          *)
(*     src/OptimizedEfficientGraph1.cpp                (impl = "OEG1")     *)
(*     src/OptimizedEfficientGraph3.cpp                (impl = "OEG3")     *)
(* A behaviour builds a graph with addEdge and setNodeConversion (or       *)
(* setChannelSwitchSupport) calls and then runs one query; every iteration *)
(* of the query's priority-queue loop is one step.  findMinCostPath of the *)
(* OptimizedEfficientGraph classes returns a path and no cost: its result  *)
(* is recorded with cost 0.                                                *)
(***************************************************************************)
EXTENDS Integers, Sequences, FiniteSets, Bags, TLC

(***************************************************************************)
(* Bounds of the model.  CHANNELS is 100 in the sources; the model keeps   *)
(* the name and scales the value down (every loop bound of the code is     *)
(* written in terms of CHANNELS, so the code's structure is unchanged).    *)
(***************************************************************************)
CHANNELS == 3
NodeCount == 4
LoCost == 0
MidCost == 1
HiCost == 5

\* numeric_limits<int>::max()
INF == 2147483647

Nodes == 0 .. (NodeCount - 1)
Chans == 0 .. (CHANNELS - 1)

(***************************************************************************)
(* Inputs.  Cost vectors follow the shapes the repository's tests build:   *)
(* a constant vector, and a vector that is expensive everywhere except on  *)
(* one channel.  EdgeSlots are the addEdge calls a behaviour may issue (in *)
(* this order, each at most once): a triangle 0-1-2 with node 3 hanging    *)
(* off node 2.                                                             *)
(***************************************************************************)
generateConstantCosts(cost) == [i \in Chans |-> cost]
CheapAt(k) == [i \in Chans |-> IF i = k THEN LoCost ELSE HiCost]
CostVectors == {generateConstantCosts(MidCost)} \cup {CheapAt(k) : k \in 0 .. 1}

EdgeSlots == << <<0, 1>>, <<1, 2>>, <<0, 2>>, <<2, 3>> >>
ConvNodes == {1, 2}

VARIABLES
    impl,                  \* which source file's class the object is
    adj_list,              \* ChannelGraph::adj_list
    node_support_convert,  \* ChannelGraph::node_support_convert
    next_slot,             \* driver: next addEdge slot that may be issued
    next_conv,             \* driver: next node setNodeConversion may name
    pc,                    \* "build" | "search" | "done"
    source, target, channel_width,   \* arguments of the running query
    dist, prev, visited, pq,         \* locals of findShortestPath
    result,                \* outcome of the query
    adj,                   \* OptimizedEfficientGraph::adj
    supports_switch,       \* OptimizedEfficientGraph::supports_switch
    min_cost,              \* findMinCostPath local min_cost
    best_state,            \* findMinCostPath local best_state (OptimizedEfficientGraph3.cpp)
    best_predecessor,      \* findMinCostPath local best_predecessor (OptimizedEfficientGraph3.cpp)
    prev_state,            \* findMinCostPath local prev_state (OptimizedEfficientGraph1.cpp)
    start_channel,         \* findMinCostPath local start_channel (OptimizedEfficientGraph1.cpp)
    best_final_state,      \* findMinCostPath local best_final_state (OptimizedEfficientGraph1.cpp)
    last_call              \* OptimizedEfficientGraph: the construction call that has just
                           \* ended and how it ended (none once the query starts)

vars == << impl, adj_list, node_support_convert, next_slot, next_conv, pc,
           source, target, channel_width, dist, prev, visited, pq, result,
           adj, supports_switch, min_cost, best_state, best_predecessor,
           prev_state, start_channel, best_final_state, last_call >>

\* the state of the OptimizedEfficientGraph classes and of their queries
oegVars == << adj, supports_switch, min_cost, best_state, best_predecessor,
             prev_state, start_channel, best_final_state, last_call >>
oegLocals == << min_cost, best_state, best_predecessor, prev_state, start_channel,
               best_final_state >>
\* the state of the ChannelGraph classes and of their queries
cgVars == << adj_list, node_support_convert, channel_width, prev, visited >>

graphVars == << impl, adj_list, node_support_convert, next_slot, next_conv >>

NoResult == [kind |-> "none", what |-> "", path |-> << >>, cost |-> 0]
Return(path, cost) == [kind |-> "return", what |-> "", path |-> path, cost |-> cost]
Throw(what) == [kind |-> "throw", what |-> what, path |-> << >>, cost |-> 0]
Diverge == [kind |-> "diverge", what |-> "", path |-> << >>, cost |-> 0]

(***************************************************************************)
(* Construction: ChannelGraph(n), addEdge, setNodeConversion.              *)
(***************************************************************************)
Edge(t, costs) == [to |-> t, channel_costs |-> costs]

\* a shared_ptr<State> holding nullptr
NullState == [cost |-> 0, node |-> -1, channel |-> -1, consecutive |-> 0, visited |-> {}]

\* a construction call and its outcome: "return", or the exception thrown
Call(op, args, outcome) == [op |-> op, args |-> args, outcome |-> outcome]
NoCall == Call("none", << >>, "none")

\* no query has created its locals yet
NoOegLocals ==
    /\ min_cost = 0
    /\ best_state = NullState
    /\ best_predecessor = << >>
    /\ prev_state = << >>
    /\ start_channel = << >>
    /\ best_final_state = -1

ChannelGraphInit(which) ==
    /\ impl = which
    /\ adj = << >>
    /\ supports_switch = << >>
    /\ NoOegLocals
    /\ last_call = NoCall
    /\ adj_list = [n \in Nodes |-> << >>]
    /\ node_support_convert = [n \in Nodes |-> FALSE]
    /\ next_slot = 1
    /\ next_conv = 0
    /\ pc = "build"
    /\ source = -1 /\ target = -1 /\ channel_width = 0
    /\ dist = << >> /\ prev = << >> /\ visited = << >>
    /\ pq = EmptyBag
    /\ result = NoResult

\* adjacency lists whose entry for the direction v -> u holds the cost vector
\* in reverse channel order
addEdgeLists_ReversedBack(lists, u, v, channel_costs) ==
    LET a1 == [lists EXCEPT ![u] = Append(@, Edge(v, channel_costs))]
    IN  [a1 EXCEPT ![v] = Append(@, Edge(u, [i \in Chans |-> channel_costs[CHANNELS - 1 - i]]))]

\* the adjacency lists after addEdge(u, v, channel_costs) returns normally
addEdgeLists(lists, u, v, channel_costs) ==
    LET a1 == [lists EXCEPT ![u] = Append(@, Edge(v, channel_costs))]
    IN  [a1 EXCEPT ![v] = Append(@, Edge(u, channel_costs))]

\* addEdge with the size test after the first emplace_back
addEdge_HalfInserted(u, v, channel_costs) ==
    /\ pc = "build"
    /\ IF u < 0 \/ u >= NodeCount \/ v < 0 \/ v >= NodeCount
       THEN /\ result' = Throw("out_of_range")
            /\ UNCHANGED adj_list
       ELSE IF DOMAIN channel_costs # Chans
       THEN /\ result' = Throw("invalid_argument")
            /\ adj_list' = [adj_list EXCEPT ![u] = Append(@, Edge(v, channel_costs))]
       ELSE /\ adj_list' = addEdgeLists(adj_list, u, v, channel_costs)
            /\ UNCHANGED result
    /\ UNCHANGED << impl, node_support_convert, next_conv, pc, source, target,
                    channel_width, dist, prev, visited, pq >>
    /\ UNCHANGED oegVars

addEdge(u, v, channel_costs) ==
    /\ pc = "build"
    /\ IF u < 0 \/ u >= NodeCount \/ v < 0 \/ v >= NodeCount
       THEN /\ result' = Throw("out_of_range")
            /\ UNCHANGED adj_list
       ELSE IF DOMAIN channel_costs # Chans
       THEN /\ result' = Throw("invalid_argument")
            /\ UNCHANGED adj_list
       ELSE /\ adj_list' = addEdgeLists(adj_list, u, v, channel_costs)
            /\ UNCHANGED result
    /\ UNCHANGED << impl, node_support_convert, next_conv, pc, source, target,
                    channel_width, dist, prev, visited, pq >>
    /\ UNCHANGED oegVars

AddEdgeCall ==
    \E j \in next_slot .. Len(EdgeSlots) : \E costs \in CostVectors :
        /\ next_slot' = j + 1
        /\ addEdge(EdgeSlots[j][1], EdgeSlots[j][2], costs)

setNodeConversion(node, support) ==
    /\ pc = "build"
    /\ IF node < 0 \/ node >= NodeCount
       THEN /\ result' = Throw("out_of_range")
            /\ UNCHANGED node_support_convert
       ELSE /\ node_support_convert' = [node_support_convert EXCEPT ![node] = support]
            /\ UNCHANGED result
    /\ UNCHANGED << impl, adj_list, next_slot, pc, source, target,
                    channel_width, dist, prev, visited, pq >>
    /\ UNCHANGED oegVars

SetNodeConversionCall ==
    \E node \in ConvNodes :
        /\ node >= next_conv
        /\ next_conv' = node + 1
        /\ setNodeConversion(node, TRUE)

\* calls the class must reject: a node id just outside [0, NodeCount), a cost
\* vector one element short or one element long
BadNodes == {-1, NodeCount}
ShortCosts == [i \in 0 .. (CHANNELS - 2) |-> MidCost]
LongCosts == [i \in 0 .. CHANNELS |-> MidCost]
BadAddEdgeArgs ==
    {a \in ({0} \cup BadNodes) \X ({1} \cup BadNodes)
            \X {generateConstantCosts(MidCost), ShortCosts, LongCosts} :
        \/ a[1] \in BadNodes
        \/ a[2] \in BadNodes
        \/ a[3] # generateConstantCosts(MidCost)}

BadAddEdgeCall ==
    \E a \in BadAddEdgeArgs :
        /\ addEdge(a[1], a[2], a[3])
        /\ UNCHANGED next_slot

BadSetNodeConversionCall ==
    \E node \in BadNodes : \E support \in BOOLEAN :
        /\ setNodeConversion(node, support)
        /\ UNCHANGED next_conv

(***************************************************************************)
(* Helpers shared by the two ChannelGraph variants.                        *)
(***************************************************************************)
RECURSIVE Reverse(_)
Reverse(s) == IF s = << >> THEN << >> ELSE Append(Reverse(Tail(s)), Head(s))

\* the order of greater<tuple<int,int,int>>: lexicographic on (cost, node, channel)
TupleLess(a, b) ==
    \/ a[1] < b[1]
    \/ a[1] = b[1] /\ a[2] < b[2]
    \/ a[1] = b[1] /\ a[2] = b[2] /\ a[3] < b[3]

\* priority_queue<State, vector<State>, greater<State>>::top()
\* top() of a queue built with less<State>: the greatest entry
pqTop_Greatest(q) == CHOOSE x \in BagToSet(q) : \A y \in BagToSet(q) : ~TupleLess(x, y)

pqTop(q) == CHOOSE x \in BagToSet(q) : \A y \in BagToSet(q) : ~TupleLess(y, x)

pqPush(q, x) == q (+) SetToBag({x})
pqPop(q, x) == q (-) SetToBag({x})

RECURSIVE SumChannels(_, _, _, _)
SumChannels(channel_costs, start_ch, width, i) ==
    IF i >= width THEN 0
    ELSE channel_costs[start_ch + i] + SumChannels(channel_costs, start_ch, width, i + 1)

\* mutant: the summing loop stops one channel early
calculateChannelCost_DropsLastChannel(channel_costs, start_ch, width) ==
    IF start_ch + width > CHANNELS THEN INF
    ELSE SumChannels(channel_costs, start_ch, width - 1, 0)

\* ChannelGraph::calculateChannelCost (identical in both files)
calculateChannelCost(channel_costs, start_ch, width) ==
    IF start_ch + width > CHANNELS THEN INF
    ELSE SumChannels(channel_costs, start_ch, width, 0)

\* for (ch = 0; ch <= CHANNELS - channel_width; ++ch) push_back(ch)
\* mutant: only start channel 0 is offered
AllStartChannels_ZeroOnly(width) == << 0 >>

AllStartChannels(width) == [k \in 1 .. (CHANNELS - width + 1) |-> k - 1]

\* mutant: the initialisation loop starts at channel 1
InitialPq_FromOne(s, w) == SetToBag({<<0, s, c>> : c \in 1 .. (CHANNELS - w)})

\* the locals after the validation and the initialisation loop
InitialDist(s, w) ==
    [n \in Nodes |-> [c \in Chans |-> IF n = s /\ c <= CHANNELS - w THEN 0 ELSE INF]]
InitialPrev == [n \in Nodes |-> [c \in Chans |-> <<-1, -1>>]]
InitialPq(s, w) == SetToBag({<<0, s, c>> : c \in 0 .. (CHANNELS - w)})

(***************************************************************************)
(* src/ChannelGraph.cpp: findShortestPath and reconstructPath.             *)
(***************************************************************************)
\* start channels under which a node that cannot convert forwards nothing
CG_possible_start_channels_ConvertOnly(u, u_start_ch, s, width) ==
    IF node_support_convert[u] \/ u = s
    THEN AllStartChannels(width)
    ELSE << >>

CG_possible_start_channels(u, u_start_ch, s, width) ==
    IF node_support_convert[u] \/ u = s
    THEN AllStartChannels(width)
    ELSE << u_start_ch >>

\* one pass of the body of "for (int v_start_ch : possible_start_channels)"
CG_relaxOne(L, u, u_start_ch, current_cost, edge, v_start_ch, width) ==
    LET v == edge.to
        channel_cost == calculateChannelCost(edge.channel_costs, v_start_ch, width)
        new_cost == current_cost + channel_cost
    IN  IF channel_cost = INF THEN L
        ELSE IF new_cost < L.dist[v][v_start_ch]
        THEN [dist |-> [L.dist EXCEPT ![v][v_start_ch] = new_cost],
              prev |-> [L.prev EXCEPT ![v][v_start_ch] = <<u, u_start_ch>>],
              pq   |-> pqPush(L.pq, <<new_cost, v, v_start_ch>>)]
        ELSE L

RECURSIVE CG_relaxChannels(_, _, _, _, _, _, _, _)
CG_relaxChannels(L, u, u_start_ch, current_cost, edge, chs, i, width) ==
    IF i > Len(chs) THEN L
    ELSE CG_relaxChannels(
             CG_relaxOne(L, u, u_start_ch, current_cost, edge, chs[i], width),
             u, u_start_ch, current_cost, edge, chs, i + 1, width)

RECURSIVE CG_relaxEdges(_, _, _, _, _, _, _, _)
CG_relaxEdges(L, u, u_start_ch, current_cost, edges, j, s, width) ==
    IF j > Len(edges) THEN L
    ELSE CG_relaxEdges(
             CG_relaxChannels(L, u, u_start_ch, current_cost, edges[j],
                              CG_possible_start_channels(u, u_start_ch, s, width), 1, width),
             u, u_start_ch, current_cost, edges, j + 1, s, width)

\* the while loop of reconstructPath; fuel bounds the walk by the number of
\* (node, channel) entries, past which the chain has revisited an entry and
\* the loop of the code never ends
RECURSIVE CG_walk(_, _, _, _, _)
CG_walk(pv, current_node, current_ch, path, fuel) ==
    IF current_node = -1 THEN [ends |-> TRUE, path |-> path]
    ELSE IF fuel = 0 THEN [ends |-> FALSE, path |-> path]
    ELSE CG_walk(pv, pv[current_node][current_ch][1], pv[current_node][current_ch][2],
                 Append(path, <<current_node, current_ch>>), fuel - 1)

CG_reconstructPath(pv, s, t, target_ch, cost) ==
    LET w == CG_walk(pv, t, target_ch, << >>, NodeCount * CHANNELS)
    IN  IF w.ends THEN Return(Reverse(w.path), cost) ELSE Diverge

\* mutant: a query that marks its source as a converting node
CG_findShortestPath_MarksSource(s, t, w) ==
    /\ pc = "build"
    /\ impl = "CG"
    /\ source' = s /\ target' = t /\ channel_width' = w
    /\ IF w < 1 \/ w > 3
       THEN /\ result' = Throw("invalid_argument")
            /\ pc' = "done"
            /\ UNCHANGED << dist, prev, pq, node_support_convert >>
       ELSE IF s < 0 \/ s >= NodeCount \/ t < 0 \/ t >= NodeCount
       THEN /\ result' = Throw("out_of_range")
            /\ pc' = "done"
            /\ UNCHANGED << dist, prev, pq, node_support_convert >>
       ELSE /\ dist' = InitialDist(s, w)
            /\ prev' = InitialPrev
            /\ pq' = InitialPq(s, w)
            /\ pc' = "search"
            /\ node_support_convert' = [node_support_convert EXCEPT ![s] = TRUE]
            /\ UNCHANGED result
    /\ UNCHANGED << impl, adj_list, next_slot, next_conv, visited >>
    /\ UNCHANGED oegVars

\* mutant: the node ids are validated before the width
CG_findShortestPath_RangeFirst(s, t, w) ==
    /\ pc = "build"
    /\ impl = "CG"
    /\ source' = s /\ target' = t /\ channel_width' = w
    /\ IF s < 0 \/ s >= NodeCount \/ t < 0 \/ t >= NodeCount
       THEN /\ result' = Throw("out_of_range")
            /\ pc' = "done"
            /\ UNCHANGED << dist, prev, pq >>
       ELSE IF w < 1 \/ w > 3
       THEN /\ result' = Throw("invalid_argument")
            /\ pc' = "done"
            /\ UNCHANGED << dist, prev, pq >>
       ELSE /\ dist' = InitialDist(s, w)
            /\ prev' = InitialPrev
            /\ pq' = InitialPq(s, w)
            /\ pc' = "search"
            /\ UNCHANGED result
    /\ UNCHANGED << graphVars, visited >>
    /\ UNCHANGED oegVars

CG_findShortestPath(s, t, w) ==
    /\ pc = "build"
    /\ impl = "CG"
    /\ source' = s /\ target' = t /\ channel_width' = w
    /\ IF w < 1 \/ w > 3
       THEN /\ result' = Throw("invalid_argument")
            /\ pc' = "done"
            /\ UNCHANGED << dist, prev, pq >>
       ELSE IF s < 0 \/ s >= NodeCount \/ t < 0 \/ t >= NodeCount
       THEN /\ result' = Throw("out_of_range")
            /\ pc' = "done"
            /\ UNCHANGED << dist, prev, pq >>
       ELSE /\ dist' = InitialDist(s, w)
            /\ prev' = InitialPrev
            /\ pq' = InitialPq(s, w)
            /\ pc' = "search"
            /\ UNCHANGED result
    /\ UNCHANGED << graphVars, visited >>
    /\ UNCHANGED oegVars

\* one iteration of "while (!pq.empty())"
CG_whileIteration ==
    /\ pc = "search"
    /\ impl = "CG"
    /\ pq # EmptyBag
    /\ LET top == pqTop(pq)
           current_cost == top[1]
           u == top[2]
           u_start_ch == top[3]
           popped == pqPop(pq, top)
       IN  IF u = target
           THEN /\ result' = CG_reconstructPath(prev, source, target, u_start_ch, current_cost)
                /\ pc' = "done"
                /\ pq' = popped
                /\ UNCHANGED << dist, prev >>
           ELSE IF current_cost > dist[u][u_start_ch]
           THEN /\ pq' = popped
                /\ UNCHANGED << dist, prev, pc, result >>
           ELSE LET L == CG_relaxEdges([dist |-> dist, prev |-> prev, pq |-> popped],
                                       u, u_start_ch, current_cost, adj_list[u], 1,
                                       source, channel_width)
                IN  /\ dist' = L.dist
                    /\ prev' = L.prev
                    /\ pq' = L.pq
                    /\ UNCHANGED << pc, result >>
    /\ UNCHANGED << graphVars, source, target, channel_width, visited >>
    /\ UNCHANGED oegVars

\* the loop ends with the queue empty: "return {vector<pair<int,int>>(), INF}"
CG_returnNoPath ==
    /\ pc = "search"
    /\ impl = "CG"
    /\ pq = EmptyBag
    /\ result' = Return(<< >>, INF)
    /\ pc' = "done"
    /\ UNCHANGED << graphVars, source, target, channel_width, dist, prev, visited, pq >>
    /\ UNCHANGED oegVars

(***************************************************************************)
(* src/ChannelGraph2.cpp: findShortestPath with per-(node, channel)        *)
(* visited marks, and reconstructPath with its two integrity checks.       *)
(***************************************************************************)
InitialVisited == [n \in Nodes |-> [c \in Chans |-> FALSE]]

\* every node treated as a converting node
CG2_possible_start_channels_Free(u, u_start_ch, s, width) ==
    AllStartChannels(width)

\* only the source chooses its start channel; a converting node does not
CG2_possible_start_channels_SourceOnly(u, u_start_ch, s, width) ==
    IF u = s
    THEN AllStartChannels(width)
    ELSE IF u_start_ch <= CHANNELS - width THEN << u_start_ch >> ELSE << >>

\* a node that cannot convert moves on to the next start channel
CG2_possible_start_channels_Next(u, u_start_ch, s, width) ==
    IF node_support_convert[u] \/ u = s
    THEN AllStartChannels(width)
    ELSE IF u_start_ch + 1 <= CHANNELS - width THEN << u_start_ch + 1 >> ELSE << >>

CG2_possible_start_channels(u, u_start_ch, s, width) ==
    IF node_support_convert[u] \/ u = s
    THEN AllStartChannels(width)
    ELSE IF u_start_ch <= CHANNELS - width THEN << u_start_ch >> ELSE << >>

\* mutant: an entry is written at its first discovery only, never improved
CG2_relaxOne_FirstDiscovery(L, vis, u, u_start_ch, current_cost, edge, v_start_ch, width) ==
    LET v == edge.to
        channel_cost == calculateChannelCost(edge.channel_costs, v_start_ch, width)
        new_cost == current_cost + channel_cost
    IN  IF vis[v][v_start_ch] THEN L
        ELSE IF channel_cost = INF THEN L
        ELSE IF L.dist[v][v_start_ch] = INF
        THEN [dist |-> [L.dist EXCEPT ![v][v_start_ch] = new_cost],
              prev |-> [L.prev EXCEPT ![v][v_start_ch] = <<u, u_start_ch>>],
              pq   |-> pqPush(L.pq, <<new_cost, v, v_start_ch>>)]
        ELSE L

\* marks kept per node and set at discovery: a node that holds an entry on
\* one start channel takes no other entry
CG2_relaxOne_NodeMarks(L, vis, u, u_start_ch, current_cost, edge, v_start_ch, width) ==
    LET v == edge.to
        channel_cost == calculateChannelCost(edge.channel_costs, v_start_ch, width)
        new_cost == current_cost + channel_cost
    IN  IF \E c \in Chans : vis[v][c] \/ L.dist[v][c] < INF THEN L
        ELSE IF channel_cost = INF THEN L
        ELSE IF new_cost < L.dist[v][v_start_ch]
        THEN [dist |-> [L.dist EXCEPT ![v][v_start_ch] = new_cost],
              prev |-> [L.prev EXCEPT ![v][v_start_ch] = <<u, u_start_ch>>],
              pq   |-> pqPush(L.pq, <<new_cost, v, v_start_ch>>)]
        ELSE L

\* one pass of the body of "for (int v_start_ch : possible_start_channels)"
CG2_relaxOne(L, vis, u, u_start_ch, current_cost, edge, v_start_ch, width) ==
    LET v == edge.to
        channel_cost == calculateChannelCost(edge.channel_costs, v_start_ch, width)
        new_cost == current_cost + channel_cost
    IN  IF vis[v][v_start_ch] THEN L
        ELSE IF channel_cost = INF THEN L
        ELSE IF new_cost < L.dist[v][v_start_ch]
        THEN [dist |-> [L.dist EXCEPT ![v][v_start_ch] = new_cost],
              prev |-> [L.prev EXCEPT ![v][v_start_ch] = <<u, u_start_ch>>],
              pq   |-> pqPush(L.pq, <<new_cost, v, v_start_ch>>)]
        ELSE L

\* only the first of possible_start_channels is tried
CG2_relaxChannels_FirstOnly(L, vis, u, u_start_ch, current_cost, edge, chs, i, width) ==
    IF chs = << >> THEN L
    ELSE CG2_relaxOne(L, vis, u, u_start_ch, current_cost, edge, chs[1], width)

RECURSIVE CG2_relaxChannels(_, _, _, _, _, _, _, _, _)
CG2_relaxChannels(L, vis, u, u_start_ch, current_cost, edge, chs, i, width) ==
    IF i > Len(chs) THEN L
    ELSE CG2_relaxChannels(
             CG2_relaxOne(L, vis, u, u_start_ch, current_cost, edge, chs[i], width),
             vis, u, u_start_ch, current_cost, edge, chs, i + 1, width)

RECURSIVE CG2_relaxEdges(_, _, _, _, _, _, _, _, _)
CG2_relaxEdges(L, vis, u, u_start_ch, current_cost, edges, j, s, width) ==
    IF j > Len(edges) THEN L
    ELSE CG2_relaxEdges(
             CG2_relaxChannels(L, vis, u, u_start_ch, current_cost, edges[j],
                               CG2_possible_start_channels(u, u_start_ch, s, width), 1, width),
             vis, u, u_start_ch, current_cost, edges, j + 1, s, width)

\* the while loop of reconstructPath: it ends at node -1, or throws at the
\* first node already in visited_nodes (so it always ends)
RECURSIVE CG2_walk(_, _, _, _, _)
CG2_walk(pv, current_node, current_ch, path, visited_nodes) ==
    IF current_node = -1 THEN [repeated |-> FALSE, path |-> path]
    ELSE IF current_node \in visited_nodes THEN [repeated |-> TRUE, path |-> path]
    ELSE CG2_walk(pv, pv[current_node][current_ch][1], pv[current_node][current_ch][2],
                  Append(path, <<current_node, current_ch>>),
                  visited_nodes \cup {current_node})

RepeatedNodeError == "runtime_error: repeated node"
ReconstructionError == "runtime_error: path reconstruction"

CG2_reconstructPath(pv, s, t, target_ch, cost) ==
    LET w == CG2_walk(pv, t, target_ch, << >>, {})
        path == Reverse(w.path)
    IN  IF w.repeated THEN Throw(RepeatedNodeError)
        ELSE IF path[1][1] # s THEN Throw(ReconstructionError)
        ELSE Return(path, cost)

CG2_findShortestPath(s, t, w) ==
    /\ pc = "build"
    /\ impl = "CG2"
    /\ source' = s /\ target' = t /\ channel_width' = w
    /\ IF w < 1 \/ w > 3
       THEN /\ result' = Throw("invalid_argument")
            /\ pc' = "done"
            /\ UNCHANGED << dist, prev, visited, pq >>
       ELSE IF s < 0 \/ s >= NodeCount \/ t < 0 \/ t >= NodeCount
       THEN /\ result' = Throw("out_of_range")
            /\ pc' = "done"
            /\ UNCHANGED << dist, prev, visited, pq >>
       ELSE /\ dist' = InitialDist(s, w)
            /\ prev' = InitialPrev
            /\ visited' = InitialVisited
            /\ pq' = InitialPq(s, w)
            /\ pc' = "search"
            /\ UNCHANGED result
    /\ UNCHANGED graphVars
    /\ UNCHANGED oegVars

\* one iteration of "while (!pq.empty())"
CG2_whileIteration ==
    /\ pc = "search"
    /\ impl = "CG2"
    /\ pq # EmptyBag
    /\ LET top == pqTop(pq)
           current_cost == top[1]
           u == top[2]
           u_start_ch == top[3]
           popped == pqPop(pq, top)
           marked == [visited EXCEPT ![u][u_start_ch] = TRUE]
       IN  IF visited[u][u_start_ch]
           THEN /\ pq' = popped
                /\ UNCHANGED << dist, prev, visited, pc, result >>
           ELSE IF u = target
           THEN /\ result' = CG2_reconstructPath(prev, source, target, u_start_ch, current_cost)
                /\ pc' = "done"
                /\ pq' = popped
                /\ visited' = marked
                /\ UNCHANGED << dist, prev >>
           ELSE LET L == CG2_relaxEdges([dist |-> dist, prev |-> prev, pq |-> popped],
                                        marked, u, u_start_ch, current_cost, adj_list[u], 1,
                                        source, channel_width)
                IN  /\ dist' = L.dist
                    /\ prev' = L.prev
                    /\ pq' = L.pq
                    /\ visited' = marked
                    /\ UNCHANGED << pc, result >>
    /\ UNCHANGED << graphVars, source, target, channel_width >>
    /\ UNCHANGED oegVars

\* mutant: an exhausted queue is reported as an error
CG2_returnNoPath_Throws ==
    /\ pc = "search"
    /\ impl = "CG2"
    /\ pq = EmptyBag
    /\ result' = Throw("runtime_error: no path")
    /\ pc' = "done"
    /\ UNCHANGED << graphVars, source, target, channel_width, dist, prev, visited, pq >>
    /\ UNCHANGED oegVars

\* the loop ends with the queue empty: "return {vector<pair<int,int>>(), INF}"
CG2_returnNoPath ==
    /\ pc = "search"
    /\ impl = "CG2"
    /\ pq = EmptyBag
    /\ result' = Return(<< >>, INF)
    /\ pc' = "done"
    /\ UNCHANGED << graphVars, source, target, channel_width, dist, prev, visited, pq >>
    /\ UNCHANGED oegVars

(***************************************************************************)
(* src/OptimizedEfficientGraph1.cpp and src/OptimizedEfficientGraph3.cpp:  *)
(* construction.  The two files hold the same constructor, addEdge and     *)
(* setChannelSwitchSupport.  addEdge indexes adj[u] and adj[v] without a   *)
(* range check, so the model calls it with node ids in [0, n) only.        *)
(***************************************************************************)
\* numeric_limits of int, as INT_MAX of <climits>
INT_MAX == 2147483647
MAX_SEGMENTS == 3

OEG_Edge(t, costs) == [to |-> t, costs |-> costs]

OEGInit(which) ==
    /\ impl = which
    /\ adj = [n \in Nodes |-> << >>]
    /\ supports_switch = [n \in Nodes |-> FALSE]
    /\ NoOegLocals
    /\ last_call = NoCall
    /\ adj_list = << >>
    /\ node_support_convert = << >>
    /\ next_slot = 1
    /\ next_conv = 0
    /\ pc = "build"
    /\ source = -1 /\ target = -1 /\ channel_width = 0
    /\ dist = << >> /\ prev = << >> /\ visited = << >>
    /\ pq = EmptyBag
    /\ result = NoResult

OEG_addEdge(u, v, cost_vector) ==
    /\ pc = "build"
    /\ u \in Nodes /\ v \in Nodes
    /\ IF DOMAIN cost_vector # Chans
       THEN /\ result' = Throw("invalid_argument")
            /\ last_call' = Call("addEdge", <<u, v>>, "invalid_argument")
            /\ UNCHANGED adj
       ELSE /\ adj' = [[adj EXCEPT ![u] = Append(@, OEG_Edge(v, cost_vector))]
                            EXCEPT ![v] = Append(@, OEG_Edge(u, cost_vector))]
            /\ last_call' = Call("addEdge", <<u, v>>, "return")
            /\ UNCHANGED result
    /\ UNCHANGED << impl, supports_switch, next_conv, pc, source, target, dist, pq,
                    oegLocals, cgVars >>

OEG_setChannelSwitchSupport(node_id, supports) ==
    /\ pc = "build"
    /\ IF node_id >= 0 /\ node_id < NodeCount
       THEN supports_switch' = [supports_switch EXCEPT ![node_id] = supports]
       ELSE UNCHANGED supports_switch
    /\ last_call' = Call("setChannelSwitchSupport", <<node_id, supports>>, "return")
    /\ UNCHANGED << impl, adj, next_slot, pc, source, target, dist, pq, result,
                    oegLocals, cgVars >>

\* Edge::getSegmentCost
RECURSIVE OEG_getSegmentCostLoop(_, _, _, _)
OEG_getSegmentCostLoop(costs, start, segment_size, i) ==
    IF i >= segment_size THEN 0
    ELSE costs[start + i]
         + OEG_getSegmentCostLoop(costs, start, segment_size, i + 1)
OEG_getSegmentCost(edge, start, segment_size) ==
    OEG_getSegmentCostLoop(edge.costs, start, segment_size, 0)

\* the (seg_size, start) pairs in the order of the two nested loops
\* "for seg_size in 1..MAX_SEGMENTS, for start in 0..CHANNELS - seg_size"
RECURSIVE SegmentStartsFrom(_)
SegmentStartsFrom(seg_size) ==
    IF seg_size > MAX_SEGMENTS THEN << >>
    ELSE [k \in 1 .. (CHANNELS - seg_size + 1) |-> <<seg_size, k - 1>>]
         \o SegmentStartsFrom(seg_size + 1)
SegmentStarts == SegmentStartsFrom(1)

\* priority_queue ordered by operator> on cost alone: top() is an entry of
\* least cost; which one among several is not fixed by the code
pqMinima(q) == {x \in BagToSet(q) : \A y \in BagToSet(q) : x.cost <= y.cost}

(***************************************************************************)
(* src/OptimizedEfficientGraph3.cpp: findMinCostPath with per-state        *)
(* visited sets, and reconstructPath over best_predecessor.                *)
(***************************************************************************)
OEG3_State(c, n, ch, cons, vis) ==
    [cost |-> c, node |-> n, channel |-> ch, consecutive |-> cons, visited |-> vis]

state_key(node, channel, consecutive) == node * 1000 + channel * 10 + consecutive

\* best_predecessor[state_key] = make_shared<State>(current)
OEG3_record(bp, key, current) ==
    [k \in (DOMAIN bp) \cup {key} |-> IF k = key THEN current ELSE bp[k]]

\* body of the two nested loops that start a new segment on edge
RECURSIVE OEG3_startSegments(_, _, _, _, _)
OEG3_startSegments(L, current, edge, mc, i) ==
    IF i > Len(SegmentStarts) THEN L
    ELSE LET seg_size == SegmentStarts[i][1]
             start == SegmentStarts[i][2]
             v == edge.to
             segment_cost == OEG_getSegmentCost(edge, start, seg_size)
             new_cost == current.cost + segment_cost
             new_state == OEG3_State(new_cost, v, start + seg_size - 1, seg_size,
                                     current.visited \cup {v})
             L2 == IF new_cost >= mc THEN L
                   ELSE [bp |-> OEG3_record(L.bp, state_key(v, start + seg_size - 1, seg_size),
                                            current),
                         pq |-> L.pq (+) SetToBag({new_state})]
         IN  OEG3_startSegments(L2, current, edge, mc, i + 1)

\* "case 1": continue the current run of channels by one channel
OEG3_continue(L, current, edge, mc) ==
    IF current.channel < CHANNELS - 1 /\ current.consecutive < MAX_SEGMENTS
    THEN LET v == edge.to
             next_channel == current.channel + 1
             channel_cost == edge.costs[next_channel]
             new_cost == current.cost + channel_cost
             new_state == OEG3_State(new_cost, v, next_channel, current.consecutive + 1,
                                     current.visited \cup {v})
         IN  IF new_cost < mc
             THEN [bp |-> OEG3_record(L.bp, state_key(v, next_channel, current.consecutive + 1),
                                      current),
                   pq |-> L.pq (+) SetToBag({new_state})]
             ELSE L
    ELSE L

\* every node treated as a node that supports switching
OEG3_can_restart_Always(current, u) == TRUE

OEG3_can_restart(current, u) ==
    \/ supports_switch[u]
    \/ current.channel >= CHANNELS - 1
    \/ current.consecutive = MAX_SEGMENTS

\* an edge loop body without the test of current.visited
OEG3_expandEdge_Revisits(L, current, edge, mc) ==
    IF current.channel = -1 THEN OEG3_startSegments(L, current, edge, mc, 1)
    ELSE LET L1 == OEG3_continue(L, current, edge, mc)
         IN  IF OEG3_can_restart(current, current.node)
             THEN OEG3_startSegments(L1, current, edge, mc, 1)
             ELSE L1

\* body of "for (const Edge& edge : adj[u])"
OEG3_expandEdge(L, current, edge, mc) ==
    IF edge.to \in current.visited THEN L
    ELSE IF current.channel = -1 THEN OEG3_startSegments(L, current, edge, mc, 1)
    ELSE LET L1 == OEG3_continue(L, current, edge, mc)
         IN  IF OEG3_can_restart(current, current.node)
             THEN OEG3_startSegments(L1, current, edge, mc, 1)
             ELSE L1

RECURSIVE OEG3_expandEdges(_, _, _, _, _)
OEG3_expandEdges(L, current, edges, j, mc) ==
    IF j > Len(edges) THEN L
    ELSE OEG3_expandEdges(OEG3_expandEdge(L, current, edges[j], mc), current, edges, j + 1, mc)

\* the while loop of reconstructPath: reverse_states, or no end of the walk.
\* fuel is one more than the number of keys, past which the walk has come
\* back to a key it left and the loop of the code never ends
RECURSIVE OEG3_walk(_, _, _, _, _)
OEG3_walk(predecessor, current, s, reverse_states, fuel) ==
    LET states == Append(reverse_states, current)
        key == state_key(current.node, current.channel, current.consecutive)
    IN  IF current.node = s THEN [ends |-> TRUE, states |-> states]
        ELSE IF key \notin DOMAIN predecessor THEN [ends |-> TRUE, states |-> states]
        ELSE IF fuel = 0 THEN [ends |-> FALSE, states |-> states]
        ELSE OEG3_walk(predecessor, predecessor[key], s, states, fuel - 1)

\* the entry reconstructPath emits for one state
OEG3_pathEntry(state, s, t) ==
    LET sc == IF state.channel # -1 THEN state.channel - state.consecutive + 1 ELSE -1
    IN  IF state.node = s \/ state.node = t THEN <<state.node, -1>> ELSE <<state.node, sc>>

OEG3_reconstructPath(final_state, predecessor, s, t) ==
    IF final_state = NullState THEN Return(<< >>, 0)
    ELSE LET w == OEG3_walk(predecessor, final_state, s, << >>,
                            Cardinality(DOMAIN predecessor) + 1)
             rev == Reverse(w.states)
         IN  IF w.ends
             THEN Return([i \in 1 .. Len(rev) |-> OEG3_pathEntry(rev[i], s, t)], 0)
             ELSE Diverge

OEG3_findMinCostPath(s, t) ==
    /\ pc = "build"
    /\ impl = "OEG3"
    /\ source' = s /\ target' = t
    /\ IF s = t
       THEN /\ result' = Return(<< <<s, -1>> >>, 0)
            /\ pc' = "done"
            /\ UNCHANGED << pq, min_cost, best_state, best_predecessor >>
       ELSE /\ pq' = SetToBag({OEG3_State(0, s, -1, 0, {s})})
            /\ min_cost' = INT_MAX
            /\ best_state' = NullState
            /\ best_predecessor' = << >>
            /\ pc' = "search"
            /\ UNCHANGED result
    /\ UNCHANGED << impl, adj, supports_switch, next_slot, next_conv, dist,
                    prev_state, start_channel, best_final_state, cgVars >>
    /\ last_call' = NoCall

\* one iteration of "while (!pq.empty())"
OEG3_whileIteration ==
    /\ pc = "search"
    /\ impl = "OEG3"
    /\ pq # EmptyBag
    /\ \E current \in pqMinima(pq) :
         LET popped == pq (-) SetToBag({current})
             u == current.node
         IN  IF current.cost > min_cost
             THEN /\ pq' = popped
                  /\ UNCHANGED << min_cost, best_state, best_predecessor >>
             ELSE IF u = target
             THEN /\ pq' = popped
                  /\ IF current.cost < min_cost
                     THEN min_cost' = current.cost /\ best_state' = current
                     ELSE UNCHANGED << min_cost, best_state >>
                  /\ UNCHANGED best_predecessor
             ELSE LET L == OEG3_expandEdges([bp |-> best_predecessor, pq |-> popped],
                                            current, adj[u], 1, min_cost)
                  IN  /\ pq' = L.pq
                      /\ best_predecessor' = L.bp
                      /\ UNCHANGED << min_cost, best_state >>
    /\ UNCHANGED << impl, adj, supports_switch, next_slot, next_conv, pc, source, target,
                    dist, result, prev_state, start_channel, best_final_state, cgVars,
                    last_call >>

\* the loop has ended: "return reconstructPath(best_state, best_predecessor, ...)"
OEG3_return ==
    /\ pc = "search"
    /\ impl = "OEG3"
    /\ pq = EmptyBag
    /\ result' = OEG3_reconstructPath(best_state, best_predecessor, source, target)
    /\ pc' = "done"
    /\ UNCHANGED << impl, adj, supports_switch, next_slot, next_conv, source, target,
                    dist, pq, oegLocals, cgVars, last_call >>

(***************************************************************************)
(* Query inputs: every valid (source, target, width), and calls with a     *)
(* width or a node id just outside the valid range.                        *)
(***************************************************************************)
ValidQueries == {<<s, t, w>> : s \in Nodes, t \in Nodes, w \in 1 .. 3}
InvalidQueries ==
    {q \in {<<s, t, w>> : s \in {-1, 0, NodeCount}, t \in {-1, 0, NodeCount}, w \in {0, 1, 4}} :
        q \notin ValidQueries}
Queries == ValidQueries \cup InvalidQueries

CG_Query == \E q \in Queries : CG_findShortestPath(q[1], q[2], q[3])

InitCG == ChannelGraphInit("CG")

NextCG ==
    \/ AddEdgeCall
    \/ SetNodeConversionCall
    \/ CG_Query
    \/ CG_whileIteration
    \/ CG_returnNoPath

SpecCG == InitCG /\ [][NextCG]_vars

CG2_Query == \E q \in Queries : CG2_findShortestPath(q[1], q[2], q[3])

InitCG2 == ChannelGraphInit("CG2")

NextCG2 ==
    \/ AddEdgeCall
    \/ SetNodeConversionCall
    \/ CG2_Query
    \/ CG2_whileIteration
    \/ CG2_returnNoPath

SpecCG2 == InitCG2 /\ [][NextCG2]_vars

\* both ChannelGraph variants, for the properties stated of both
InitChannelGraphs == \E which \in {"CG", "CG2"} : ChannelGraphInit(which)

NextChannelGraphs == NextCG \/ NextCG2

SpecChannelGraphs == InitChannelGraphs /\ [][NextChannelGraphs]_vars

(***************************************************************************)
(* The graph of test 2 of src/ChannelGraph2.cpp: edge (0,1) costs 100 on   *)
(* channel 0, 1 on channel 1 and 10 elsewhere; edge (1,2) costs 1 on       *)
(* channel 0, 100 on channel 1 and 10 elsewhere.  A behaviour adds these   *)
(* edges (each at most once), may make nodes of ConvNodes converting, and  *)
(* runs one query.                                                         *)
(***************************************************************************)
costs1 == [i \in Chans |-> IF i = 0 THEN 100 ELSE IF i = 1 THEN 1 ELSE 10]
costs2 == [i \in Chans |-> IF i = 0 THEN 1 ELSE IF i = 1 THEN 100 ELSE 10]
ScenarioCosts == << costs1, costs2 >>

ScenarioAddEdgeCall ==
    \E j \in next_slot .. Len(ScenarioCosts) :
        /\ next_slot' = j + 1
        /\ addEdge(EdgeSlots[j][1], EdgeSlots[j][2], ScenarioCosts[j])

NextCG2Scenario ==
    \/ ScenarioAddEdgeCall
    \/ SetNodeConversionCall
    \/ CG2_Query
    \/ CG2_whileIteration
    \/ CG2_returnNoPath

SpecCG2Scenario == InitCG2 /\ [][NextCG2Scenario]_vars

(***************************************************************************)
(* The single-edge graphs of test 5 of the two ChannelGraph files: edge    *)
(* (0,1) with ascending costs 1, 2, 3, ..., or with cost 10 everywhere     *)
(* except for a run of cheap channels of cost 1 (channels 10..12 in the    *)
(* source, the channels from 1 on here).                                   *)
(***************************************************************************)
AscendingCosts == [i \in Chans |-> i + 1]
CheapRunCosts == [i \in Chans |-> IF i >= 1 THEN 1 ELSE 10]
SingleEdgeCosts == {AscendingCosts, CheapRunCosts}

SingleEdgeAddEdgeCall ==
    \E costs \in SingleEdgeCosts :
        /\ next_slot = 1
        /\ next_slot' = 2
        /\ addEdge(0, 1, costs)

NextSingleEdge ==
    \/ SingleEdgeAddEdgeCall
    \/ SetNodeConversionCall
    \/ CG_Query
    \/ CG_whileIteration
    \/ CG_returnNoPath
    \/ CG2_Query
    \/ CG2_whileIteration
    \/ CG2_returnNoPath

SpecSingleEdge == InitChannelGraphs /\ [][NextSingleEdge]_vars

(***************************************************************************)
(* Construction of a ChannelGraph of ChannelGraph.cpp with parallel edges: *)
(* addEdge(0,1), addEdge(0,1) again, addEdge(1,0) and the self-loop        *)
(* addEdge(1,1), each with any of CostVectors, among the failing calls.    *)
(***************************************************************************)
ParallelEdgeSlots == << <<0, 1>>, <<0, 1>>, <<1, 0>>, <<1, 1>> >>

ParallelAddEdgeCall ==
    \E j \in next_slot .. Len(ParallelEdgeSlots) : \E costs \in CostVectors :
        /\ next_slot' = j + 1
        /\ addEdge(ParallelEdgeSlots[j][1], ParallelEdgeSlots[j][2], costs)

NextCGParallel ==
    \/ ParallelAddEdgeCall
    \/ BadAddEdgeCall
    \/ BadSetNodeConversionCall

SpecCGParallel == InitCG /\ [][NextCGParallel]_vars

(***************************************************************************)
(* Several findShortestPath calls on one ChannelGraph of ChannelGraph.cpp: *)
(* the graph of test 2 is built (node 3 stays isolated), then queries      *)
(* follow one another with no construction call between them.  When a      *)
(* call has returned its locals are gone, and the caller keeps either the  *)
(* answer of this call or the answer it had kept from an earlier one, in   *)
(* last_call.                                                              *)
(***************************************************************************)
RepeatQueries ==
    { <<0, 2, 1>>, <<0, 2, 2>>, <<2, 0, 1>>, <<1, 1, 1>>, <<0, 3, 1>>,
      <<0, 2, 0>>, <<0, NodeCount, 1>> }

CG_RepeatQuery == \E q \in RepeatQueries : CG_findShortestPath(q[1], q[2], q[3])

\* findShortestPath has returned or thrown: dist, prev and pq are destroyed
CG_queryReturned ==
    /\ pc = "done"
    /\ impl = "CG"
    /\ pc' = "build"
    /\ dist' = << >> /\ prev' = << >> /\ pq' = EmptyBag
    /\ \/ last_call' = Call("findShortestPath", <<source, target, channel_width>>, result)
       \/ /\ last_call # NoCall
          /\ UNCHANGED last_call
    /\ UNCHANGED << graphVars, source, target, channel_width, visited, result,
                    adj, supports_switch, oegLocals >>

NextCGRepeat ==
    \/ (result = NoResult /\ ScenarioAddEdgeCall)
    \/ (result = NoResult /\ SetNodeConversionCall)
    \/ CG_RepeatQuery
    \/ CG_whileIteration
    \/ CG_returnNoPath
    \/ CG_queryReturned

SpecCGRepeat == InitCG /\ [][NextCGRepeat]_vars

\* construction of a ChannelGraph of src/ChannelGraph.cpp alone, with the calls
\* the class rejects among the calls it accepts
NextCGBuild ==
    \/ AddEdgeCall
    \/ SetNodeConversionCall
    \/ BadAddEdgeCall
    \/ BadSetNodeConversionCall

SpecCGBuild == InitCG /\ [][NextCGBuild]_vars

(***************************************************************************)
(* src/OptimizedEfficientGraph1.cpp: findMinCostPath over the states       *)
(* node * STATE_COUNT + channel, and reconstructPath over prev_state.      *)
(* The code writes the unstarted channel as the literal 100, which is its  *)
(* CHANNELS; the model writes CHANNELS.                                    *)
(***************************************************************************)
STATE_COUNT == CHANNELS + 1
TOTAL_STATES == NodeCount * STATE_COUNT

PathState(c, st, p, sc) ==
    [cost |-> c, state |-> st, prev_state |-> p, start_channel |-> sc]

\* "if (new_cost < dist[new_state]) { dist[new_state] = new_cost; pq.push(...) }"
OEG1_push(L, new_cost, new_state, from, sc) ==
    IF new_cost < L.dist[new_state]
    THEN [dist |-> [L.dist EXCEPT ![new_state] = new_cost],
          pq |-> L.pq (+) SetToBag({PathState(new_cost, new_state, from, sc)})]
    ELSE L

\* body of the two nested loops that start a new segment on edge
RECURSIVE OEG1_startSegments(_, _, _, _, _)
OEG1_startSegments(L, current, edge, mc, i) ==
    IF i > Len(SegmentStarts) THEN L
    ELSE LET seg_size == SegmentStarts[i][1]
             start == SegmentStarts[i][2]
             segment_cost == OEG_getSegmentCost(edge, start, seg_size)
             new_cost == current.cost + segment_cost
             new_channel == start + seg_size - 1
             new_state == edge.to * STATE_COUNT + new_channel
             L2 == IF new_cost >= mc THEN L
                   ELSE OEG1_push(L, new_cost, new_state, current.state, start)
         IN  OEG1_startSegments(L2, current, edge, mc, i + 1)

\* "case 1": continue the current run of channels by one channel
OEG1_continue(L, current, edge, mc) ==
    LET current_channel == current.state % STATE_COUNT
    IN  IF current_channel < CHANNELS - 1
        THEN LET next_channel == current_channel + 1
                 channel_cost == edge.costs[next_channel]
                 new_cost == current.cost + channel_cost
                 new_state == edge.to * STATE_COUNT + next_channel
                 continued_start_channel ==
                     IF current.start_channel = -1 THEN current_channel
                     ELSE current.start_channel
             IN  IF new_cost < mc
                 THEN OEG1_push(L, new_cost, new_state, current.state,
                                continued_start_channel)
                 ELSE L
        ELSE L

OEG1_can_restart(u, current_channel) ==
    supports_switch[u] \/ current_channel >= CHANNELS - 1

\* body of "for (const Edge& edge : adj[u])"
OEG1_expandEdge(L, current, edge, mc) ==
    LET u == current.state \div STATE_COUNT
        channel == current.state % STATE_COUNT
    IN  IF channel = CHANNELS THEN OEG1_startSegments(L, current, edge, mc, 1)
        ELSE LET L1 == OEG1_continue(L, current, edge, mc)
             IN  IF OEG1_can_restart(u, channel)
                 THEN OEG1_startSegments(L1, current, edge, mc, 1)
                 ELSE L1

RECURSIVE OEG1_expandEdges(_, _, _, _, _)
OEG1_expandEdges(L, current, edges, j, mc) ==
    IF j > Len(edges) THEN L
    ELSE OEG1_expandEdges(OEG1_expandEdge(L, current, edges[j], mc), current, edges, j + 1, mc)

\* the while loop of reconstructPath: reverse_path, or no end of the walk
\* (more steps than there are states: the walk is on a cycle of prev_state)
RECURSIVE OEG1_walk(_, _, _, _, _)
OEG1_walk(prevs, starts, current_state, reverse_path, fuel) ==
    IF current_state = -1 THEN [ends |-> TRUE, path |-> reverse_path]
    ELSE IF fuel = 0 THEN [ends |-> FALSE, path |-> reverse_path]
    ELSE OEG1_walk(prevs, starts, prevs[current_state],
                   Append(reverse_path,
                          <<current_state \div STATE_COUNT, starts[current_state]>>),
                   fuel - 1)

OEG1_reconstructPath(final_state, prevs, starts, s, t) ==
    IF final_state = -1 THEN Return(<< >>, 0)
    ELSE LET w == OEG1_walk(prevs, starts, final_state, << >>, TOTAL_STATES + 1)
             rev == Reverse(w.path)
         IN  IF w.ends
             THEN Return([i \in 1 .. Len(rev) |->
                            IF rev[i][1] = s \/ rev[i][1] = t
                            THEN <<rev[i][1], -1>> ELSE rev[i]], 0)
             ELSE Diverge

OEG1_findMinCostPath(s, t) ==
    /\ pc = "build"
    /\ impl = "OEG1"
    /\ source' = s /\ target' = t
    /\ LET start_state == s * STATE_COUNT + CHANNELS
       IN  /\ dist' = [st \in 0 .. (TOTAL_STATES - 1) |->
                          IF st = start_state THEN 0 ELSE INT_MAX]
           /\ pq' = SetToBag({PathState(0, start_state, -1, -1)})
    /\ prev_state' = [st \in 0 .. (TOTAL_STATES - 1) |-> -1]
    /\ start_channel' = [st \in 0 .. (TOTAL_STATES - 1) |-> -1]
    /\ min_cost' = INT_MAX
    /\ best_final_state' = -1
    /\ pc' = "search"
    /\ UNCHANGED << impl, adj, supports_switch, next_slot, next_conv, result,
                    best_state, best_predecessor, cgVars >>
    /\ last_call' = NoCall

\* one iteration of "while (!pq.empty())"
OEG1_whileIteration ==
    /\ pc = "search"
    /\ impl = "OEG1"
    /\ pq # EmptyBag
    /\ \E current \in pqMinima(pq) :
         LET popped == pq (-) SetToBag({current})
             u == current.state \div STATE_COUNT
             channel == current.state % STATE_COUNT
             first == current.prev_state # -1 /\ prev_state[current.state] = -1
         IN  IF current.cost > dist[current.state] \/ current.cost > min_cost
             THEN /\ pq' = popped
                  /\ UNCHANGED << dist, min_cost, best_final_state, prev_state,
                                  start_channel >>
             ELSE /\ prev_state' = IF first
                                   THEN [prev_state EXCEPT ![current.state] = current.prev_state]
                                   ELSE prev_state
                  /\ start_channel' = IF first
                                      THEN [start_channel EXCEPT
                                              ![current.state] = current.start_channel]
                                      ELSE start_channel
                  /\ IF u = target /\ channel # CHANNELS
                     THEN /\ pq' = popped
                          /\ IF current.cost < min_cost
                             THEN min_cost' = current.cost /\ best_final_state' = current.state
                             ELSE UNCHANGED << min_cost, best_final_state >>
                          /\ UNCHANGED dist
                     ELSE LET L == OEG1_expandEdges([dist |-> dist, pq |-> popped],
                                                    current, adj[u], 1, min_cost)
                          IN  /\ pq' = L.pq
                              /\ dist' = L.dist
                              /\ UNCHANGED << min_cost, best_final_state >>
    /\ UNCHANGED << impl, adj, supports_switch, next_slot, next_conv, pc, source, target,
                    result, best_state, best_predecessor, cgVars, last_call >>

\* the loop has ended: "return reconstructPath(best_final_state, prev_state, ...)"
OEG1_return ==
    /\ pc = "search"
    /\ impl = "OEG1"
    /\ pq = EmptyBag
    /\ result' = OEG1_reconstructPath(best_final_state, prev_state, start_channel,
                                      source, target)
    /\ pc' = "done"
    /\ UNCHANGED << impl, adj, supports_switch, next_slot, next_conv, source, target,
                    dist, pq, oegLocals, cgVars, last_call >>

(***************************************************************************)
(* src/OptimizedEfficientGraph.cpp (impl = "OEG"): edges with precomputed  *)
(* segment costs, and findMinCost, which returns the cost alone (recorded  *)
(* as a result with an empty path) or -1.  Its queue holds pair<int, int>  *)
(* under greater<>, the lexicographic order on (cost, state_id).  addEdge  *)
(* and setChannelSwitchSupport of this file test nothing; the model calls  *)
(* them with node ids in [0, n) and vectors of CHANNELS costs only.        *)
(***************************************************************************)
\* a precomputation whose triple costs leave out the third channel
precomputeEdge_TripleShort(to, costs) ==
    [to |-> to,
     single_costs |-> [i \in 0 .. (CHANNELS - 1) |-> costs[i]],
     double_costs |-> [i \in 0 .. (CHANNELS - 2) |-> costs[i] + costs[i + 1]],
     triple_costs |-> [i \in 0 .. (CHANNELS - 3) |-> costs[i] + costs[i + 1]]]

\* PrecomputedEdge precomputeEdge(int to, const array<int, CHANNELS>& costs)
precomputeEdge(to, costs) ==
    [to |-> to,
     single_costs |-> [i \in 0 .. (CHANNELS - 1) |-> costs[i]],
     double_costs |-> [i \in 0 .. (CHANNELS - 2) |-> costs[i] + costs[i + 1]],
     triple_costs |-> [i \in 0 .. (CHANNELS - 3) |-> costs[i] + costs[i + 1] + costs[i + 2]]]

\* PrecomputedEdge::getSegmentCost
PrecomputedEdge_getSegmentCost(edge, start, segment_size) ==
    IF segment_size = 1 THEN edge.single_costs[start]
    ELSE IF segment_size = 2 THEN edge.double_costs[start]
    ELSE IF segment_size = 3 THEN edge.triple_costs[start]
    ELSE INT_MAX

OEG0_addEdge(u, v, costs) ==
    /\ pc = "build"
    /\ impl = "OEG"
    /\ u \in Nodes /\ v \in Nodes /\ DOMAIN costs = Chans
    /\ adj' = [[adj EXCEPT ![u] = Append(@, precomputeEdge(v, costs))]
                    EXCEPT ![v] = Append(@, precomputeEdge(u, costs))]
    /\ last_call' = Call("addEdge", <<u, v>>, "return")
    /\ UNCHANGED << impl, supports_switch, next_conv, pc, source, target, dist, pq,
                    result, oegLocals, cgVars >>

OEG0_setChannelSwitchSupport(node_id, supports) ==
    /\ pc = "build"
    /\ impl = "OEG"
    /\ node_id \in Nodes
    /\ supports_switch' = [supports_switch EXCEPT ![node_id] = supports]
    /\ last_call' = Call("setChannelSwitchSupport", <<node_id, supports>>, "return")
    /\ UNCHANGED << impl, adj, next_slot, pc, source, target, dist, pq, result,
                    oegLocals, cgVars >>

\* the order of greater<pair<int, int>>
PairLess(a, b) == a[1] < b[1] \/ (a[1] = b[1] /\ a[2] < b[2])
OEG0_pqTop(q) == CHOOSE x \in BagToSet(q) : \A y \in BagToSet(q) : ~PairLess(y, x)

\* "if (new_cost < dist[new_state]) { dist[new_state] = new_cost; pq.push(...) }"
OEG0_push(L, new_cost, new_state) ==
    IF new_cost < L.dist[new_state]
    THEN [dist |-> [L.dist EXCEPT ![new_state] = new_cost],
          pq |-> L.pq (+) SetToBag({<<new_cost, new_state>>})]
    ELSE L

\* a start loop whose new_channel is one past the segment's last channel
RECURSIVE OEG0_startSegments_PastEnd(_, _, _, _)
OEG0_startSegments_PastEnd(L, cost, edge, i) ==
    IF i > Len(SegmentStarts) THEN L
    ELSE LET seg_size == SegmentStarts[i][1]
             start == SegmentStarts[i][2]
             segment_cost == PrecomputedEdge_getSegmentCost(edge, start, seg_size)
             new_channel == start + seg_size
             new_state == edge.to * STATE_COUNT + new_channel
             new_cost == cost + segment_cost
         IN  OEG0_startSegments_PastEnd(OEG0_push(L, new_cost, new_state), cost, edge, i + 1)

\* the two nested loops that start a new segment on edge
RECURSIVE OEG0_startSegments(_, _, _, _)
OEG0_startSegments(L, cost, edge, i) ==
    IF i > Len(SegmentStarts) THEN L
    ELSE LET seg_size == SegmentStarts[i][1]
             start == SegmentStarts[i][2]
             segment_cost == PrecomputedEdge_getSegmentCost(edge, start, seg_size)
             new_channel == start + seg_size - 1
             new_state == edge.to * STATE_COUNT + new_channel
             new_cost == cost + segment_cost
         IN  OEG0_startSegments(OEG0_push(L, new_cost, new_state), cost, edge, i + 1)

\* "continue the current sequence"
OEG0_continue(L, cost, channel, edge) ==
    IF channel < CHANNELS - 1
    THEN LET next_channel == channel + 1
             channel_cost == edge.single_costs[next_channel]
             new_state == edge.to * STATE_COUNT + next_channel
             new_cost == cost + channel_cost
         IN  OEG0_push(L, new_cost, new_state)
    ELSE L

\* body of "for (const PrecomputedEdge& edge : adj[u])"
OEG0_expandEdge(L, cost, u, channel, edge) ==
    IF channel = CHANNELS THEN OEG0_startSegments(L, cost, edge, 1)
    ELSE LET L1 == OEG0_continue(L, cost, channel, edge)
         IN  IF supports_switch[u] \/ channel >= CHANNELS - 1
             THEN OEG0_startSegments(L1, cost, edge, 1)
             ELSE L1

RECURSIVE OEG0_expandEdges(_, _, _, _, _, _)
OEG0_expandEdges(L, cost, u, channel, edges, j) ==
    IF j > Len(edges) THEN L
    ELSE OEG0_expandEdges(OEG0_expandEdge(L, cost, u, channel, edges[j]),
                          cost, u, channel, edges, j + 1)

OEG0_findMinCost(s, t) ==
    /\ pc = "build"
    /\ impl = "OEG"
    /\ source' = s /\ target' = t
    /\ LET start_state == s * STATE_COUNT + CHANNELS
       IN  /\ dist' = [st \in 0 .. (TOTAL_STATES - 1) |->
                          IF st = start_state THEN 0 ELSE INT_MAX]
           /\ pq' = SetToBag({<<0, start_state>>})
    /\ pc' = "search"
    /\ last_call' = NoCall
    /\ UNCHANGED << impl, adj, supports_switch, next_slot, next_conv, result,
                    oegLocals, cgVars >>

\* one iteration of "while (!pq.empty())"
OEG0_whileIteration ==
    /\ pc = "search"
    /\ impl = "OEG"
    /\ pq # EmptyBag
    /\ LET top == OEG0_pqTop(pq)
           cost == top[1]
           state_id == top[2]
           popped == pq (-) SetToBag({top})
           u == state_id \div STATE_COUNT
           channel == state_id % STATE_COUNT
       IN  IF cost > dist[state_id]
           THEN /\ pq' = popped
                /\ UNCHANGED << dist, pc, result >>
           ELSE IF u = target /\ channel # CHANNELS
           THEN /\ result' = Return(<< >>, cost)
                /\ pc' = "done"
                /\ pq' = popped
                /\ UNCHANGED dist
           ELSE LET L == OEG0_expandEdges([dist |-> dist, pq |-> popped],
                                          cost, u, channel, adj[u], 1)
                IN  /\ pq' = L.pq
                    /\ dist' = L.dist
                    /\ UNCHANGED << pc, result >>
    /\ UNCHANGED << impl, adj, supports_switch, next_slot, next_conv, source, target,
                    oegLocals, cgVars, last_call >>

\* the loop ends with the queue empty: "return -1"
OEG0_returnNoPath ==
    /\ pc = "search"
    /\ impl = "OEG"
    /\ pq = EmptyBag
    /\ result' = Return(<< >>, -1)
    /\ pc' = "done"
    /\ UNCHANGED << impl, adj, supports_switch, next_slot, next_conv, source, target,
                    dist, pq, oegLocals, cgVars, last_call >>

\* validatePath of src/OptimizedEfficientGraph3.cpp (without its printing)
validatePath(path, s, t) ==
    /\ path # << >>
    /\ path[1][1] = s
    /\ path[Len(path)][1] = t
    /\ \A i \in 1 .. Len(path) : \A j \in 1 .. (i - 1) : path[j][1] # path[i][1]

(***************************************************************************)
(* Calls on an OptimizedEfficientGraph: the addEdge calls of EdgeSlots in  *)
(* order, each at most once and each with the cost vector OEG_SlotCosts    *)
(* gives it, setChannelSwitchSupport(node, true) on the nodes of           *)
(* ConvNodes, then one findMinCostPath(source, target).  The searches are  *)
(* far larger than ChannelGraph's (a queue entry per route, and any of the *)
(* cheapest entries may be popped), hence the smaller family of inputs.    *)
(***************************************************************************)
OEG_SlotCosts ==
    << CheapAt(0), CheapAt(0), generateConstantCosts(MidCost),
       generateConstantCosts(MidCost) >>

OEG_AddEdgeCall ==
    \E j \in next_slot .. Len(EdgeSlots) :
        /\ next_slot' = j + 1
        /\ OEG_addEdge(EdgeSlots[j][1], EdgeSlots[j][2], OEG_SlotCosts[j])

OEG_SetChannelSwitchSupportCall ==
    \E node \in ConvNodes :
        /\ node >= next_conv
        /\ next_conv' = node + 1
        /\ OEG_setChannelSwitchSupport(node, TRUE)

\* a call with a node id just outside [0, n)
OEG_BadSetChannelSwitchSupportCall ==
    \E node \in BadNodes :
        /\ OEG_setChannelSwitchSupport(node, TRUE)
        /\ UNCHANGED next_conv

SameNodeQueries == {<<s, s>> : s \in Nodes}
OEG3_Queries == SameNodeQueries \cup {<<1, 3>>, <<0, 3>>}
OEG1_Queries == SameNodeQueries \cup {<<1, 3>>}

OEG3_Query == \E q \in OEG3_Queries : OEG3_findMinCostPath(q[1], q[2])

InitOEG3 == OEGInit("OEG3")

NextOEG3 ==
    \/ OEG_AddEdgeCall
    \/ OEG_SetChannelSwitchSupportCall
    \/ OEG3_Query
    \/ OEG3_whileIteration
    \/ OEG3_return

SpecOEG3 == InitOEG3 /\ [][NextOEG3]_vars

OEG1_Query == \E q \in OEG1_Queries : OEG1_findMinCostPath(q[1], q[2])

InitOEG1 == OEGInit("OEG1")

NextOEG1 ==
    \/ OEG_AddEdgeCall
    \/ OEG_SetChannelSwitchSupportCall
    \/ OEG1_Query
    \/ OEG1_whileIteration
    \/ OEG1_return

SpecOEG1 == InitOEG1 /\ [][NextOEG1]_vars

\* construction of an OptimizedEfficientGraph of either file, with calls of
\* setChannelSwitchSupport that name a node outside [0, n)
InitOEGBuild == \E which \in {"OEG1", "OEG3"} : OEGInit(which)

NextOEGBuild ==
    \/ OEG_AddEdgeCall
    \/ OEG_SetChannelSwitchSupportCall
    \/ OEG_BadSetChannelSwitchSupportCall

SpecOEGBuild == InitOEGBuild /\ [][NextOEGBuild]_vars

\* calls on an OptimizedEfficientGraph of src/OptimizedEfficientGraph.cpp: the
\* addEdge calls of EdgeSlots in order with any of CostVectors,
\* setChannelSwitchSupport(node, true) on the nodes of ConvNodes, then one
\* findMinCost(source, target)
OEG0_AddEdgeCall ==
    \E j \in next_slot .. Len(EdgeSlots) : \E costs \in CostVectors :
        /\ next_slot' = j + 1
        /\ OEG0_addEdge(EdgeSlots[j][1], EdgeSlots[j][2], costs)

OEG0_SetChannelSwitchSupportCall ==
    \E node \in ConvNodes :
        /\ node >= next_conv
        /\ next_conv' = node + 1
        /\ OEG0_setChannelSwitchSupport(node, TRUE)

OEG0_Query == \E q \in Nodes \X Nodes : OEG0_findMinCost(q[1], q[2])

InitOEG0 == OEGInit("OEG")

NextOEG0 ==
    \/ OEG0_AddEdgeCall
    \/ OEG0_SetChannelSwitchSupportCall
    \/ OEG0_Query
    \/ OEG0_whileIteration
    \/ OEG0_returnNoPath

SpecOEG0 == InitOEG0 /\ [][NextOEG0]_vars

(***************************************************************************)
(* reconstructPath of OptimizedEfficientGraph3.cpp and of                  *)
(* OptimizedEfficientGraph1.cpp as functions of their arguments: a final   *)
(* state, a predecessor map, source and target, drawn from small sets that *)
(* hold complete chains, chains that stop short of the source, and cycles. *)
(***************************************************************************)
ReconStart3 == OEG3_State(0, 0, -1, 0, {0})
ReconMid3 == OEG3_State(0, 1, 0, 1, {0, 1})
ReconEnd3 == OEG3_State(1, 2, 1, 2, {0, 1, 2})
ReconStates3 == {ReconStart3, ReconMid3, ReconEnd3}
ReconKeys3 == {state_key(1, 0, 1), state_key(2, 1, 2)}
ReconPredecessors3 == UNION {[D -> ReconStates3] : D \in SUBSET ReconKeys3}

ReconStart1 == 0 * STATE_COUNT + CHANNELS
ReconMid1 == 1 * STATE_COUNT + 0
ReconEnd1 == 2 * STATE_COUNT + 1
ReconPrevs1 ==
    {[st \in 0 .. (TOTAL_STATES - 1) |->
         IF st = ReconMid1 THEN a ELSE IF st = ReconEnd1 THEN b ELSE -1] :
       a \in {-1, ReconStart1, ReconMid1, ReconEnd1},
       b \in {-1, ReconStart1, ReconMid1, ReconEnd1}}
ReconStarts1 ==
    [st \in 0 .. (TOTAL_STATES - 1) |->
        IF st = ReconMid1 \/ st = ReconEnd1 THEN 0 ELSE -1]
ReconTargets == {1, 2}

InitReconstruct ==
    /\ impl \in {"OEG3", "OEG1"}
    /\ adj = [n \in Nodes |-> << >>]
    /\ supports_switch = [n \in Nodes |-> FALSE]
    /\ min_cost = 0
    /\ source = 0
    /\ target \in ReconTargets
    /\ IF impl = "OEG3"
       THEN /\ best_state \in ReconStates3 \cup {NullState}
            /\ best_predecessor \in ReconPredecessors3
            /\ prev_state = << >> /\ start_channel = << >> /\ best_final_state = -1
       ELSE /\ best_final_state \in {-1, ReconMid1, ReconEnd1}
            /\ prev_state \in ReconPrevs1
            /\ start_channel = ReconStarts1
            /\ best_state = NullState /\ best_predecessor = << >>
    /\ last_call = NoCall
    /\ adj_list = << >>
    /\ node_support_convert = << >>
    /\ next_slot = 1
    /\ next_conv = 0
    /\ pc = "reconstruct"
    /\ channel_width = 0
    /\ dist = << >> /\ prev = << >> /\ visited = << >>
    /\ pq = EmptyBag
    /\ result = NoResult

OEG3_reconstructPathCall ==
    /\ pc = "reconstruct"
    /\ impl = "OEG3"
    /\ result' = OEG3_reconstructPath(best_state, best_predecessor, source, target)
    /\ pc' = "done"
    /\ UNCHANGED << impl, adj, supports_switch, next_slot, next_conv, source, target,
                    dist, pq, oegLocals, cgVars, last_call >>

OEG1_reconstructPathCall ==
    /\ pc = "reconstruct"
    /\ impl = "OEG1"
    /\ result' = OEG1_reconstructPath(best_final_state, prev_state, start_channel,
                                      source, target)
    /\ pc' = "done"
    /\ UNCHANGED << impl, adj, supports_switch, next_slot, next_conv, source, target,
                    dist, pq, oegLocals, cgVars, last_call >>

NextReconstruct == OEG3_reconstructPathCall \/ OEG1_reconstructPathCall

SpecReconstruct == InitReconstruct /\ [][NextReconstruct]_vars

(***************************************************************************)
(* getSegmentCost of the two edge types as functions of their arguments:   *)
(* a cost vector over {LoCost, MidCost, HiCost}, a segment size in         *)
(* 1 .. MAX_SEGMENTS and a start channel the size fits from.  The          *)
(* precomputed edge (impl = "OEG") is built by precomputeEdge as addEdge   *)
(* builds it; the edge of OptimizedEfficientGraph1.cpp holds the vector.   *)
(***************************************************************************)
SegmentCostVectors == [Chans -> {LoCost, MidCost, HiCost}]
SegmentArgs ==
    {<<costs, start, segment_size>> :
        costs \in SegmentCostVectors, start \in Chans, segment_size \in 1 .. MAX_SEGMENTS}

InitSegmentCost ==
    /\ impl \in {"OEG", "OEG1"}
    /\ adj = [n \in Nodes |-> << >>]
    /\ supports_switch = [n \in Nodes |-> FALSE]
    /\ NoOegLocals
    /\ \E a \in SegmentArgs :
          /\ a[2] + a[3] <= CHANNELS
          /\ last_call = Call("getSegmentCost", a, "none")
    /\ adj_list = << >>
    /\ node_support_convert = << >>
    /\ next_slot = 1
    /\ next_conv = 0
    /\ pc = "segment"
    /\ source = -1 /\ target = -1 /\ channel_width = 0
    /\ dist = << >> /\ prev = << >> /\ visited = << >>
    /\ pq = EmptyBag
    /\ result = NoResult

\* the value getSegmentCost returns, recorded as the cost of the result
PrecomputedEdge_getSegmentCostCall ==
    /\ pc = "segment"
    /\ impl = "OEG"
    /\ LET a == last_call.args
       IN  result' = Return(<< >>, PrecomputedEdge_getSegmentCost(precomputeEdge(1, a[1]),
                                                                 a[2], a[3]))
    /\ last_call' = [last_call EXCEPT !.outcome = "return"]
    /\ pc' = "done"
    /\ UNCHANGED << impl, adj, supports_switch, next_slot, next_conv, source, target,
                    dist, pq, oegLocals, cgVars >>

Edge_getSegmentCostCall ==
    /\ pc = "segment"
    /\ impl = "OEG1"
    /\ LET a == last_call.args
       IN  result' = Return(<< >>, OEG_getSegmentCost(OEG_Edge(1, a[1]), a[2], a[3]))
    /\ last_call' = [last_call EXCEPT !.outcome = "return"]
    /\ pc' = "done"
    /\ UNCHANGED << impl, adj, supports_switch, next_slot, next_conv, source, target,
                    dist, pq, oegLocals, cgVars >>

NextSegmentCost == PrecomputedEdge_getSegmentCostCall \/ Edge_getSegmentCostCall

SpecSegmentCost == InitSegmentCost /\ [][NextSegmentCost]_vars

\* either of the two cost searches over the states node * STATE_COUNT + channel
InitOEGStates == InitOEG0 \/ InitOEG1
NextOEGStates == (impl = "OEG" /\ NextOEG0) \/ (impl = "OEG1" /\ NextOEG1)
SpecOEGStates == InitOEGStates /\ [][NextOEGStates]_vars

(***************************************************************************)
(* Vocabulary of the properties.  These definitions are written from the   *)
(* problem statement, not from the search code: a window sum, the edges    *)
(* joining two nodes, reachability, and the cheapest simple route found by *)
(* exhaustive enumeration.                                                 *)
(***************************************************************************)
Returned == pc = "done" /\ result.kind = "return"
ValidQuery == <<source, target, channel_width>> \in ValidQueries
NoRepeatedNode(path) ==
    \A i, j \in 1 .. Len(path) : i # j => path[i][1] # path[j][1]

\* cost of the width-w segment that starts at channel start (w in 1..3)
WindowSum(costs, start, w) ==
    costs[start] + (IF w >= 2 THEN costs[start + 1] ELSE 0)
                 + (IF w >= 3 THEN costs[start + 2] ELSE 0)
ValidStart(start, w) == start >= 0 /\ start + w <= CHANNELS

\* cost vectors of the edges joining a and b
EdgeCostsBetween(a, b) ==
    {adj_list[a][k].channel_costs : k \in {k \in 1 .. Len(adj_list[a]) : adj_list[a][k].to = b}}
Neighbours(a) == {adj_list[a][k].to : k \in 1 .. Len(adj_list[a])}

\* the totals the (node, channel) pairs of path encode from entry i on
RECURSIVE EncodedCosts(_, _, _)
EncodedCosts(path, i, w) ==
    IF i > Len(path) THEN {0}
    ELSE IF ~ValidStart(path[i][2], w) THEN {}
    ELSE {WindowSum(c, path[i][2], w) + rest :
              c \in EdgeCostsBetween(path[i - 1][1], path[i][1]),
              rest \in EncodedCosts(path, i + 1, w)}

RECURSIVE ReachableFrom(_)
ReachableFrom(S) ==
    LET T == S \cup UNION {Neighbours(a) : a \in S}
    IN  IF T = S THEN S ELSE ReachableFrom(T)
Connected(a, b) == b \in ReachableFrom({a})

SetMin(S) == CHOOSE x \in S : \A y \in S : x <= y

\* cheapest way to finish a simple route at node t from node u, entered on
\* start channel ch, without touching the nodes in seen; INF if there is none
RECURSIVE MinRouteFrom(_, _, _, _, _, _)
MinRouteFrom(u, ch, seen, s, t, w) ==
    IF u = t THEN 0
    ELSE LET starts == IF u = s \/ node_support_convert[u]
                       THEN {c \in Chans : ValidStart(c, w)}
                       ELSE {ch}
             options == {[k |-> k, c |-> c] :
                            k \in {k \in 1 .. Len(adj_list[u]) : adj_list[u][k].to \notin seen},
                            c \in starts}
             totals == {LET e == adj_list[u][o.k]
                            rest == MinRouteFrom(e.to, o.c, seen \cup {e.to}, s, t, w)
                        IN  IF rest = INF THEN INF
                            ELSE WindowSum(e.channel_costs, o.c, w) + rest : o \in options}
         IN  IF totals = {} THEN INF ELSE SetMin(totals)
MinRouteCost(s, t, w) == MinRouteFrom(s, 0, {s}, s, t, w)

\* path is a simple route from s to t that keeps the start channel across
\* every intermediate node that cannot convert
IsRoute(path, s, t, w) ==
    /\ Len(path) >= 1
    /\ path[1][1] = s
    /\ path[Len(path)][1] = t
    /\ NoRepeatedNode(path)
    /\ \A i \in 2 .. Len(path) :
           /\ ValidStart(path[i][2], w)
           /\ EdgeCostsBetween(path[i - 1][1], path[i][1]) # {}
    /\ \A i \in 2 .. (Len(path) - 1) :
           ~node_support_convert[path[i][1]] => path[i + 1][2] = path[i][2]

\* C1: ChannelGraph.cpp findShortestPath never returns a path in which a
\* node id occurs more than once.
C1_NoDuplicateNode ==
    (impl = "CG" /\ Returned) => NoRepeatedNode(result.path)

\* C2: ChannelGraph2.cpp findShortestPath returns normally on every valid
\* query; reconstructPath raises neither of its two runtime errors.
C2_NoIntegrityError ==
    (impl = "CG2" /\ pc = "done" /\ ValidQuery) => result.kind = "return"

\* C4: in both ChannelGraph variants the cost returned with a non-empty path
\* is the sum of the width-w segment costs encoded by the path's consecutive
\* (node, channel) pairs, each on some edge joining the two nodes.
C4_CostIsEncodedSum ==
    (Returned /\ result.path # << >>) =>
        result.cost \in EncodedCosts(result.path, 2, channel_width)

C4_Witness ==
    /\ Returned
    /\ Len(result.path) >= 3
    /\ result.cost > 0
    /\ result.cost \in EncodedCosts(result.path, 2, channel_width)

\* C5: ChannelGraph2.cpp returns the minimum, over all routes and all
\* start-channel assignments that respect continuity, of the summed segment
\* costs, and the returned node sequence is a route of that cost.
C5_ReturnsMinimum ==
    (impl = "CG2" /\ Returned /\ result.path # << >>) =>
        /\ result.cost = MinRouteCost(source, target, channel_width)
        /\ IsRoute(result.path, source, target, channel_width)
        /\ result.cost \in EncodedCosts(result.path, 2, channel_width)

\* several routes join source and target, and the two-hop route beat the
\* direct edge
C5_Witness ==
    /\ impl = "CG2" /\ Returned
    /\ Len(result.path) = 3
    /\ target \in Neighbours(source)
    /\ result.cost = MinRouteCost(source, target, channel_width)

\* C6: with no sequence of edges from source to target (source # target),
\* both variants return the empty path with cost INF and raise nothing.
C6_UnreachableReturnsEmpty ==
    (pc = "done" /\ ValidQuery /\ source # target /\ ~Connected(source, target)) =>
        result = Return(<< >>, INF)

\* an unreachable target after a search that did relax edges
C6_Witness ==
    /\ pc = "done" /\ ValidQuery /\ source # target
    /\ ~Connected(source, target)
    /\ adj_list[source] # << >>
    /\ result = Return(<< >>, INF)

\* C7: ChannelGraph2.cpp findShortestPath(s, s, w) returns the one-element
\* path at s with cost 0, and no edge is traversed (the first pop ends the
\* query: no distance or predecessor entry was written, and all but one of
\* the seeded entries are still queued).
C7_SourceIsTarget ==
    (impl = "CG2" /\ pc = "done" /\ ValidQuery /\ source = target) =>
        /\ result.kind = "return"
        /\ Len(result.path) = 1
        /\ result.path[1][1] = source
        /\ result.cost = 0
        /\ dist = InitialDist(source, channel_width)
        /\ prev = InitialPrev
        /\ BagCardinality(pq) = CHANNELS - channel_width

C7_Witness ==
    /\ impl = "CG2" /\ pc = "done" /\ ValidQuery /\ source = target
    /\ adj_list[source] # << >>
    /\ result.kind = "return" /\ Len(result.path) = 1

\* C8: in every non-empty path returned by either ChannelGraph variant the
\* first and the last entry carry the sentinel channel -1.
C8_EndpointsCarrySentinel ==
    (Returned /\ result.path # << >>) =>
        /\ result.path[1][2] = -1
        /\ result.path[Len(result.path)][2] = -1

\* C10: ChannelGraph.cpp findShortestPath rejects a width outside 1..3 with
\* invalid_argument, otherwise a source or target outside [0, N) with
\* out_of_range; the width error wins when both are wrong, and no search
\* state exists when either is raised.
C10_ArgumentValidation ==
    (impl = "CG" /\ pc = "done") =>
        /\ channel_width \notin 1 .. 3 => result = Throw("invalid_argument")
        /\ (channel_width \in 1 .. 3 /\ (source \notin Nodes \/ target \notin Nodes))
               => result = Throw("out_of_range")
        /\ result.kind = "throw" => (dist = << >> /\ prev = << >> /\ pq = EmptyBag)

\* width and node id both invalid: the width error is the one raised
C10_Witness ==
    /\ impl = "CG" /\ pc = "done"
    /\ channel_width \notin 1 .. 3
    /\ source \notin Nodes
    /\ result = Throw("invalid_argument")


\* C3: every non-empty path that findMinCostPath of OptimizedEfficientGraph3.cpp
\* returns passes validatePath: it starts at the source, ends at the target
\* and holds no node id twice.
C3_ReturnedPathValidates ==
    (impl = "OEG3" /\ Returned /\ result.path # << >>)
        => validatePath(result.path, source, target)

\* C9: findMinCostPath(s, s) of OptimizedEfficientGraph1.cpp returns the
\* single-node path [(s, -1)] on every graph: never the empty path and never a
\* path with another node.
C9_SameNodeIsSingleEntry ==
    (impl = "OEG1" /\ pc = "done" /\ source = target)
        => (result.kind = "return" /\ result.path = << <<source, -1>> >>)

\* C11: in ChannelGraph.cpp, addEdge with u or v outside [0, N) raises
\* out_of_range, addEdge with in-range nodes and a cost vector of the wrong
\* size raises invalid_argument, setNodeConversion with a node outside [0, N)
\* raises out_of_range, and each of these failing calls leaves adj_list and
\* node_support_convert as they were.
C11_FailedCallsChangeNothing ==
    [][/\ \A a \in BadAddEdgeArgs :
            addEdge(a[1], a[2], a[3])
                => /\ result' = Throw(IF a[1] \in BadNodes \/ a[2] \in BadNodes
                                      THEN "out_of_range" ELSE "invalid_argument")
                   /\ UNCHANGED << adj_list, node_support_convert >>
       /\ \A node \in BadNodes : \A support \in BOOLEAN :
            setNodeConversion(node, support)
                => /\ result' = Throw("out_of_range")
                   /\ UNCHANGED << adj_list, node_support_convert >>]_vars

\* a call with a cost vector of the wrong size has failed on a graph that
\* already holds edges and a converting node
C11_Witness ==
    /\ impl = "CG"
    /\ pc = "build"
    /\ result = Throw("invalid_argument")
    /\ \E n \in Nodes : adj_list[n] # << >>
    /\ \E n \in Nodes : node_support_convert[n]

\* C12: setChannelSwitchSupport of OptimizedEfficientGraph1.cpp and
\* OptimizedEfficientGraph3.cpp, called with a node outside [0, n), ends with
\* a range error and not with a normal return.
C12_BadNodeIsRangeError ==
    (/\ impl \in {"OEG1", "OEG3"}
     /\ last_call.op = "setChannelSwitchSupport"
     /\ last_call.args[1] \notin Nodes)
        => last_call.outcome = "out_of_range"

\* C13: in every path returned by findShortestPath of ChannelGraph.cpp and of
\* ChannelGraph2.cpp, an entry (b, ch_b) whose node is not the source and does
\* not support conversion is followed by an entry with the same start
\* channel ch_b.
C13_ContinuityAtNonConverting ==
    (Returned /\ ValidQuery) =>
        \A i \in 1 .. (Len(result.path) - 1) :
            (result.path[i][1] # source /\ ~node_support_convert[result.path[i][1]])
                => result.path[i + 1][2] = result.path[i][2]

\* a returned path crosses a non-converting node and leaves it on the channel
\* it entered on although the edge it leaves by is cheaper on another channel,
\* in a graph that has a converting node
C13_Witness ==
    /\ Returned /\ ValidQuery
    /\ \E n \in Nodes : node_support_convert[n]
    /\ \E i \in 2 .. (Len(result.path) - 1) :
          /\ result.path[i][1] # source
          /\ ~node_support_convert[result.path[i][1]]
          /\ result.path[i + 1][2] = result.path[i][2]
          /\ \E costs \in EdgeCostsBetween(result.path[i][1], result.path[i + 1][1]) :
             \E ch \in Chans :
                /\ ValidStart(ch, channel_width)
                /\ WindowSum(costs, ch, channel_width)
                       < WindowSum(costs, result.path[i][2], channel_width)

\* sum of costs over the channels lo .. hi
RECURSIVE RangeSum(_, _, _)
RangeSum(costs, lo, hi) ==
    IF lo > hi THEN 0 ELSE costs[lo] + RangeSum(costs, lo + 1, hi)

\* C14: in findMinCostPath of OptimizedEfficientGraph1.cpp (and findMinCost of
\* OptimizedEfficientGraph.cpp, which has the same loop), a queue entry made
\* from a started state at a node that does not support conversion and is
\* not on the last channel stands for the same channels on the outgoing edge
\* as on the incoming edge: the same segment start and end, charged at that
\* segment's cost on an edge from the node.
C14_SameChannelsAcrossNonConverting ==
    (impl = "OEG1" /\ pc = "search") =>
        \A e \in BagToSet(pq) :
            e.prev_state # -1 =>
                LET u == e.prev_state \div STATE_COUNT
                    in_ch == e.prev_state % STATE_COUNT
                    v == e.state \div STATE_COUNT
                    out_ch == e.state % STATE_COUNT
                    in_start == start_channel[e.prev_state]
                IN  (in_ch # CHANNELS /\ ~supports_switch[u] /\ in_ch < CHANNELS - 1) =>
                        /\ out_ch = in_ch
                        /\ e.start_channel = in_start
                        /\ \E k \in 1 .. Len(adj[u]) :
                              /\ adj[u][k].to = v
                              /\ e.cost - dist[e.prev_state]
                                     = RangeSum(adj[u][k].costs, in_start, in_ch)

\* the entries a step has taken out of the queue
PoppedBetween(q, q2) == {x \in BagToSet(q) : CopiesIn(x, q2) < CopiesIn(x, q)}

\* C15: in findShortestPath of ChannelGraph2.cpp the costs of the entries
\* popped from the priority queue, those skipped as already visited included,
\* never decrease: the entry an iteration pops costs no more than any entry
\* the iteration leaves in the queue, and the next iteration pops one of those.
C15_PopsNonDecreasing ==
    [][(impl = "CG2" /\ pc = "search" /\ pc' = "search") =>
           \A x \in PoppedBetween(pq, pq') : \A y \in BagToSet(pq') : x[1] <= y[1]]_vars

\* the query has popped entries, and the entry on top of the queue costs more
\* than nothing and is one the loop will skip as already visited
C15_Witness ==
    /\ impl = "CG2" /\ pc = "search" /\ ValidQuery
    /\ pq # EmptyBag
    /\ \E x \in BagToSet(pq) :
          /\ \A y \in BagToSet(pq) : x[1] <= y[1]
          /\ x[1] > 0
          /\ visited[x[2]][x[3]]

(***************************************************************************)
(* Chains.  The graph is a chain from s to t when s and t have one edge    *)
(* each, every other node that has edges has two and is joined to s, and   *)
(* t is joined to s.                                                       *)
(***************************************************************************)
Degree(n) == Len(adj_list[n])
IsChain(s, t) ==
    /\ s # t
    /\ Degree(s) = 1 /\ Degree(t) = 1
    /\ Connected(s, t)
    /\ \A n \in Nodes \ {s, t} :
          \/ Degree(n) = 0
          \/ Degree(n) = 2 /\ Connected(s, n)
ChainInner(s, t) == {n \in Nodes \ {s, t} : Degree(n) = 2}
StartsOf(w) == {c \in Chans : ValidStart(c, w)}

\* the edge by which the chain leaves node n, entered from node from
\* (from = n at the first node of the chain)
ChainEdge(from, n) ==
    adj_list[n][CHOOSE k \in 1 .. Len(adj_list[n]) : adj_list[n][k].to # from]

\* sum over the chain's edges from n on of the edge's cheapest width-w segment
RECURSIVE ChainSumOfMinima(_, _, _, _)
ChainSumOfMinima(from, n, t, w) ==
    IF n = t THEN 0
    ELSE LET e == ChainEdge(from, n)
         IN  SetMin({WindowSum(e.channel_costs, c, w) : c \in StartsOf(w)})
             + ChainSumOfMinima(n, e.to, t, w)

\* sum over the chain's edges from n on of the width-w segment that starts at c
RECURSIVE ChainSumAt(_, _, _, _, _)
ChainSumAt(from, n, t, w, c) ==
    IF n = t THEN 0
    ELSE LET e == ChainEdge(from, n)
         IN  WindowSum(e.channel_costs, c, w) + ChainSumAt(n, e.to, t, w, c)

\* C16: on a chain from source to target whose intermediate nodes all
\* support conversion, findShortestPath of ChannelGraph2.cpp returns the sum
\* over the chain's edges of each edge's own cheapest width-w segment.
C16_ConvertingChainCost ==
    (/\ impl = "CG2" /\ pc = "done" /\ ValidQuery
     /\ IsChain(source, target)
     /\ \A n \in ChainInner(source, target) : node_support_convert[n])
        => /\ result.kind = "return"
           /\ result.cost = ChainSumOfMinima(source, source, target, channel_width)

\* a converting chain of three nodes or more on which the edges' cheapest
\* segments start on different channels: no single start channel is as cheap
C16_Witness ==
    /\ impl = "CG2" /\ Returned /\ ValidQuery
    /\ IsChain(source, target)
    /\ ChainInner(source, target) # {}
    /\ \A n \in ChainInner(source, target) : node_support_convert[n]
    /\ \A c \in StartsOf(channel_width) :
          result.cost < ChainSumAt(source, source, target, channel_width, c)

\* C17: on a chain from source to target whose intermediate nodes all lack
\* conversion, findShortestPath of ChannelGraph2.cpp returns the least, over
\* one start channel c used on every edge, of the sum of the edges' width-w
\* segment costs at c, with a path of one entry per chain node.
C17_NonConvertingChainCost ==
    (/\ impl = "CG2" /\ pc = "done" /\ ValidQuery
     /\ IsChain(source, target)
     /\ \A n \in ChainInner(source, target) : ~node_support_convert[n])
        => /\ result.kind = "return"
           /\ result.cost = SetMin({ChainSumAt(source, source, target, channel_width, c) :
                                       c \in StartsOf(channel_width)})
           /\ Len(result.path) = Cardinality(ChainInner(source, target)) + 2

\* a non-converting chain of three nodes or more on which the edges' cheapest
\* segments start on different channels: the result costs more than the sum
\* of the edges' own minima
C17_Witness ==
    /\ impl = "CG2" /\ Returned /\ ValidQuery
    /\ IsChain(source, target)
    /\ ChainInner(source, target) # {}
    /\ \A n \in ChainInner(source, target) : ~node_support_convert[n]
    /\ result.cost > ChainSumOfMinima(source, source, target, channel_width)

\* findShortestPath(0, 2, 1) of ChannelGraph2.cpp has ended on the graph of
\* test 2 with node 1 not supporting conversion
Scenario3Done ==
    /\ impl = "CG2" /\ pc = "done"
    /\ adj_list[0] = << Edge(1, costs1) >>
    /\ adj_list[1] = << Edge(0, costs1), Edge(2, costs2) >>
    /\ adj_list[2] = << Edge(1, costs2) >>
    /\ ~node_support_convert[1]
    /\ <<source, target, channel_width>> = <<0, 2, 1>>

\* C18 as stated: on that input the cost returned is 2, with channel 0 on
\* both edges.
C18_CostTwoOnChannelZero ==
    Scenario3Done
        => /\ result.kind = "return"
           /\ result.cost = 2
           /\ Len(result.path) = 3
           /\ result.path[2][2] = 0 /\ result.path[3][2] = 0

\* C18 amended: on that input the cost returned is 20, with one and the same
\* channel, channel 2, on both edges (channel 0 on both edges costs 101, and
\* so does channel 1).
C18_CostTwentyOnOneChannel ==
    Scenario3Done
        => /\ result.kind = "return"
           /\ result.cost = 20
           /\ Len(result.path) = 3
           /\ result.path[2][2] = 2 /\ result.path[3][2] = 2

C18_Witness == Scenario3Done /\ result.kind = "return"

\* the graph is one edge, and it joins s and t
SingleEdgeGraph(s, t) ==
    /\ s # t
    /\ Degree(s) = 1 /\ Degree(t) = 1
    /\ adj_list[s][1].to = t
    /\ \A n \in Nodes \ {s, t} : Degree(n) = 0

\* C19: on a graph that is a single edge from source to target,
\* findShortestPath of ChannelGraph.cpp and of ChannelGraph2.cpp returns the
\* least cost of a width-w window of the edge's cost vector, and neither the
\* returned path nor any queue entry of the search uses a window that runs
\* past the last channel.
C19_SingleEdgeMinimumWindow ==
    (ValidQuery /\ SingleEdgeGraph(source, target)) =>
        /\ pc = "done" =>
              /\ result.kind = "return"
              /\ result.cost = SetMin({WindowSum(adj_list[source][1].channel_costs, c,
                                                 channel_width) :
                                          c \in StartsOf(channel_width)})
              /\ Len(result.path) = 2
              /\ ValidStart(result.path[2][2], channel_width)
        /\ pc \in {"search", "done"} =>
              \A x \in BagToSet(pq) : ValidStart(x[3], channel_width)

\* a single edge crossed with a window of two channels or more that does not
\* start at channel 0, because the window at channel 0 costs more
C19_Witness ==
    /\ Returned /\ ValidQuery /\ SingleEdgeGraph(source, target)
    /\ channel_width >= 2
    /\ result.path[2][2] > 0
    /\ result.cost < WindowSum(adj_list[source][1].channel_costs, 0, channel_width)

\* the source's example: ascending costs 1, 2, 3, ... and width 3 give 1 + 2 + 3
C19_WitnessAscending ==
    /\ Returned /\ SingleEdgeGraph(source, target)
    /\ adj_list[source][1].channel_costs = AscendingCosts
    /\ channel_width = 3
    /\ result.cost = 6

\* C20: findMinCostPath of OptimizedEfficientGraph3.cpp terminates on every
\* graph: once the priority-queue loop has ended, the walk of reconstructPath
\* over best_predecessor reaches the source (or a state without predecessor)
\* after finitely many steps, so the call returns a path.
C20_ReconstructionEnds ==
    (impl = "OEG3" /\ pc = "done") => result.kind = "return"

\* the entries a step has put on the queue
PushedBetween(q, q2) == {x \in BagToSet(q2) : CopiesIn(x, q2) > CopiesIn(x, q)}

\* C21: in findMinCostPath of OptimizedEfficientGraph3.cpp, when the popped
\* state is started (channel c, consecutive k) at a node u that does not
\* support switching, with c below the last channel and k below MAX_SEGMENTS,
\* every state the iteration pushes is the continuation over an edge (u, v)
\* to an unvisited v: channel c + 1, consecutive k + 1, at the popped cost
\* plus that edge's cost of channel c + 1 alone.  A new segment is pushed
\* only from a node that supports switching, from the last channel or from
\* a run of MAX_SEGMENTS channels.
C21_OnlyContinuationWithoutSwitch ==
    [][(impl = "OEG3" /\ pc = "search") =>
          \A cur \in PoppedBetween(pq, pq') : \A e \in PushedBetween(pq, pq') :
              (/\ cur.channel # -1
               /\ ~supports_switch[cur.node]
               /\ cur.channel < CHANNELS - 1
               /\ cur.consecutive < MAX_SEGMENTS)
                  => /\ e.node \notin cur.visited
                     /\ e.channel = cur.channel + 1
                     /\ e.consecutive = cur.consecutive + 1
                     /\ \E k \in 1 .. Len(adj[cur.node]) :
                           /\ adj[cur.node][k].to = e.node
                           /\ e.cost = cur.cost + adj[cur.node][k].costs[cur.channel + 1]]_vars

\* a state has been pushed from a started state at a node without switch
\* support, below the last channel and below MAX_SEGMENTS channels
C21_Witness ==
    /\ impl = "OEG3" /\ pc = "search"
    /\ \E key \in DOMAIN best_predecessor :
          LET parent == best_predecessor[key]
          IN  /\ parent.channel # -1
              /\ ~supports_switch[parent.node]
              /\ parent.channel < CHANNELS - 1
              /\ parent.consecutive < MAX_SEGMENTS

\* the state id of a queue entry: the second component of the pair of
\* OptimizedEfficientGraph.cpp, the field state of OptimizedEfficientGraph1.cpp
EntryState(e) == IF impl = "OEG" THEN e[2] ELSE e.state
EntryNode(e) == EntryState(e) \div STATE_COUNT
EntryChannel(e) == EntryState(e) % STATE_COUNT
\* the per-channel costs a continuation reads from a stored edge
EdgeChannelCosts(edge) == IF impl = "OEG" THEN edge.single_costs ELSE edge.costs

\* C22: in findMinCost of OptimizedEfficientGraph.cpp and findMinCostPath of
\* OptimizedEfficientGraph1.cpp every state id pushed on the queue lies in
\* [0, n * STATE_COUNT); the unstarted state (channel index CHANNELS, the
\* code's 100) is pushed once, by the call itself and for the source, and no
\* iteration of the loop pushes it again: every state an iteration pushes has
\* a channel in [0, CHANNELS - 1]; and every started state an iteration pops
\* has a channel in that range, so that the continuation, taken below the
\* last channel only, reads a stored edge's cost at an index below CHANNELS.
C22_UnstartedOnlyAtSource ==
    [][(impl \in {"OEG", "OEG1"} /\ pc' = "search") =>
          /\ \A e \in PushedBetween(pq, pq') :
                /\ EntryState(e) \in 0 .. (TOTAL_STATES - 1)
                /\ EntryChannel(e) \in 0 .. CHANNELS
                /\ EntryChannel(e) = CHANNELS =>
                      /\ pc = "build"
                      /\ EntryNode(e) = source'
                      /\ CopiesIn(e, pq') = 1
                /\ pc = "search" => EntryChannel(e) \in Chans
          /\ pc = "build" =>
                Cardinality({e \in BagToSet(pq') : EntryChannel(e) = CHANNELS}) = 1
          /\ pc = "search" =>
                \A cur \in PoppedBetween(pq, pq') :
                    /\ EntryChannel(cur) = CHANNELS => EntryNode(cur) = source
                    /\ (EntryChannel(cur) # CHANNELS /\ EntryChannel(cur) < CHANNELS - 1) =>
                          \A k \in 1 .. Len(adj[EntryNode(cur)]) :
                              EntryChannel(cur) + 1 \in DOMAIN EdgeChannelCosts(adj[EntryNode(cur)][k])]_vars

\* the unstarted state has been popped and expanded, and the queue holds a
\* started state below the last channel at a node other than the source
C22_Witness ==
    /\ impl = "OEG" /\ pc = "search"
    /\ \A e \in BagToSet(pq) : EntryChannel(e) # CHANNELS
    /\ \E e \in BagToSet(pq) :
          /\ EntryNode(e) # source
          /\ EntryChannel(e) < CHANNELS - 1
          /\ Len(adj[EntryNode(e)]) > 1

\* the same under findMinCostPath of OptimizedEfficientGraph1.cpp
C22_WitnessOEG1 ==
    /\ impl = "OEG1" /\ pc = "search"
    /\ \A e \in BagToSet(pq) : EntryChannel(e) # CHANNELS
    /\ \E e \in BagToSet(pq) :
          /\ EntryNode(e) # source
          /\ EntryChannel(e) < CHANNELS - 1
          /\ Len(adj[EntryNode(e)]) > 1

\* C23: in findMinCostPath of OptimizedEfficientGraph3.cpp the first state
\* pushed is the source with visited = {source}, and every state an iteration
\* pushes is at a neighbour of the popped state's node that is not in the
\* popped state's visited set, with that set plus the neighbour as its own:
\* the set holds the source and the state's node and grows by one node per
\* edge, so that its size is one more than the number of edges traversed.
\* Every pushed started state has consecutive in 1 .. MAX_SEGMENTS and its
\* segment start channel - consecutive + 1 in [0, CHANNELS - 1].
C23_LineageInvariant ==
    [][(impl = "OEG3" /\ pc' = "search") =>
          \A e \in PushedBetween(pq, pq') :
              /\ source' \in e.visited
              /\ e.node \in e.visited
              /\ e.visited \subseteq Nodes
              /\ pc = "build" =>
                    /\ e.visited = {source'}
                    /\ e.channel = -1
              /\ pc = "search" =>
                    /\ e.channel # -1
                    /\ \A cur \in PoppedBetween(pq, pq') :
                          /\ e.node \notin cur.visited
                          /\ e.visited = cur.visited \cup {e.node}
                          /\ Cardinality(e.visited) = Cardinality(cur.visited) + 1
                          /\ \E k \in 1 .. Len(adj[cur.node]) : adj[cur.node][k].to = e.node
              /\ e.channel # -1 =>
                    /\ e.consecutive \in 1 .. MAX_SEGMENTS
                    /\ (e.channel - e.consecutive + 1) \in Chans]_vars

\* the queue holds a state two edges from the source whose node has a
\* neighbour in its visited set other than the node it came from
C23_Witness ==
    /\ impl = "OEG3" /\ pc = "search"
    /\ \E e \in BagToSet(pq) :
          /\ Cardinality(e.visited) = 3
          /\ e.consecutive > 1
          /\ Cardinality({k \in 1 .. Len(adj[e.node]) : adj[e.node][k].to \in e.visited}) > 1

\* the node ids of a path
PathNodes(path) == {path[i][1] : i \in 1 .. Len(path)}

\* C24: when findMinCostPath of OptimizedEfficientGraph3.cpp returns a path
\* for a winning terminal state, the path is that state's lineage: its nodes
\* are exactly the nodes of best_state's visited set, each once.
C24_PathIsWinningLineage ==
    (impl = "OEG3" /\ pc = "done" /\ Returned /\ source # target /\ best_state # NullState)
        => /\ PathNodes(result.path) = best_state.visited
           /\ Len(result.path) = Cardinality(best_state.visited)

C27_QueriesLeaveTopology ==
    [][(impl = "CG" /\ (pc # "build" \/ pc' # "build")) =>
          /\ UNCHANGED << adj_list, node_support_convert >>
          /\ (/\ pc' = "done"
              /\ last_call'.op = "findShortestPath"
              /\ last_call'.args = <<source', target', channel_width'>>)
                 => result' = last_call'.outcome]_vars

\* a query that ran its search and found a two-edge path has ended with the
\* arguments of an earlier call whose answer the caller kept
C27_Witness ==
    /\ impl = "CG" /\ pc = "done"
    /\ last_call.op = "findShortestPath"
    /\ last_call.args = <<source, target, channel_width>>
    /\ Returned /\ result.path # << >> /\ Len(result.path) = 3
    /\ dist # << >>

\* number of entries a -> b of adj_list[a] that hold the cost vector c
EntryCount(a, b, c) ==
    Cardinality({k \in 1 .. Len(adj_list[a]) :
                    adj_list[a][k].to = b /\ adj_list[a][k].channel_costs = c})
StoredCosts ==
    UNION {{adj_list[a][k].channel_costs : k \in 1 .. Len(adj_list[a])} : a \in Nodes}

\* C28: after any sequence of addEdge calls of ChannelGraph.cpp, failed ones
\* included, for all nodes u and v every cost vector is stored on as many
\* entries u -> v of adj_list[u] as on entries v -> u of adj_list[v], and
\* every stored cost vector has exactly CHANNELS elements.
C28_AdjacencySymmetric ==
    impl = "CG" =>
        /\ \A u \in Nodes : \A v \in Nodes : \A c \in StoredCosts :
              EntryCount(u, v, c) = EntryCount(v, u, c)
        /\ \A c \in StoredCosts : DOMAIN c = Chans
        /\ \A a \in Nodes : \A k \in 1 .. Len(adj_list[a]) : adj_list[a][k].to \in Nodes

\* nodes 0 and 1 are joined by two edges with one cost vector and a third
\* with another, node 1 has a self-loop, and the last call failed
C28_Witness ==
    /\ impl = "CG" /\ pc = "build"
    /\ result.kind = "throw"
    /\ \E c \in StoredCosts : \E c2 \in StoredCosts :
          /\ c # c2
          /\ EntryCount(0, 1, c) = 2
          /\ EntryCount(0, 1, c2) = 1
    /\ \E c \in StoredCosts : EntryCount(1, 1, c) = 2

\* C29: when some sequence of edges joins source and target, a valid
\* findShortestPath call of ChannelGraph.cpp returns, whatever the width and
\* whichever nodes can convert, a non-empty path from source to target with a
\* cost below INF: continuity never makes a connected target unreachable.
C29_ConnectedIsFound ==
    (impl = "CG" /\ pc = "done" /\ ValidQuery /\ Connected(source, target)) =>
        /\ result.kind = "return"
        /\ result.path # << >>
        /\ result.cost < INF
        /\ result.path[1][1] = source
        /\ result.path[Len(result.path)][1] = target

\* a width-2 query has ended at a target that every route reaches through
\* nodes that cannot convert
C29_Witness ==
    /\ impl = "CG" /\ pc = "done" /\ ValidQuery
    /\ channel_width = 2
    /\ source = 0 /\ target = 3
    /\ \A n \in Nodes : ~node_support_convert[n]
    /\ Connected(source, target)
    /\ Len(result.path) >= 3

\* Cheapest walk of the (node, start channel) graph both ChannelGraph
\* searches work on, by relaxation to a fixed point: D[v][c] is the least
\* cost of reaching node v on start channel c from a seeded state of s, where
\* a node that is the source or can convert changes the channel freely and
\* any other node keeps it; the start channels are those the width fits
\* from.  INF when no walk reaches the target.
WalkSeed(s, w) ==
    [v \in Nodes |-> [c \in 0 .. (CHANNELS - w) |-> IF v = s THEN 0 ELSE INF]]
RECURSIVE Least(_, _)
Least(S, bound) ==
    IF S = {} THEN bound
    ELSE LET x == CHOOSE x \in S : TRUE
         IN  Least(S \ {x}, IF x < bound THEN x ELSE bound)
\* the arcs (u, k) into node v: adj_list[u][k].to = v
ArcsInto(v) ==
    UNION {{<<u, k>> : k \in {k \in 1 .. Len(adj_list[u]) : adj_list[u][k].to = v}} :
              u \in Nodes}
WalkInto(D, arcs, c, s, w) ==
    UNION {{D[a[1]][cu] + WindowSum(adj_list[a[1]][a[2]].channel_costs, c, w) :
               cu \in {cu \in 0 .. (CHANNELS - w) :
                          /\ D[a[1]][cu] < INF
                          /\ (a[1] = s \/ node_support_convert[a[1]] \/ cu = c)}} :
             a \in arcs}
WalkRelax(D, s, w) ==
    [v \in Nodes |->
        LET arcs == ArcsInto(v)
        IN  [c \in 0 .. (CHANNELS - w) |-> Least(WalkInto(D, arcs, c, s, w), D[v][c])]]
RECURSIVE WalkDist(_, _, _)
WalkDist(D, s, w) ==
    LET D2 == WalkRelax(D, s, w)
    IN  IF D2 = D THEN D ELSE WalkDist(D2, s, w)
MinWalkCost(s, t, w) ==
    IF s = t THEN 0
    ELSE LET D == WalkDist(WalkSeed(s, w), s, w)
         IN  Least({D[t][c] : c \in 0 .. (CHANNELS - w)}, INF)

\* C30: on every graph and every valid (source, target, width), the cost
\* findShortestPath of ChannelGraph.cpp returns and the cost findShortestPath
\* of ChannelGraph2.cpp returns, when it returns normally, are the same
\* function of the graph and the query, the cost of the cheapest walk of the
\* (node, start channel) graph, and either returns the empty path exactly
\* when there is no such walk: the two agree on cost and on emptiness.
C30_SameCostBothVariants ==
    (impl \in {"CG", "CG2"} /\ Returned /\ ValidQuery) =>
        LET least == MinWalkCost(source, target, channel_width)
        IN  /\ result.cost = least
            /\ (result.path = << >>) <=> (least = INF)

\* ChannelGraph2.cpp has returned normally a path through a node that
\* cannot convert, at the cost of the cheapest walk, on a graph with a cycle
C30_Witness ==
    /\ impl = "CG2" /\ Returned /\ ValidQuery
    /\ Len(result.path) = 3
    /\ ~node_support_convert[result.path[2][1]]
    /\ \A n \in {0, 1, 2} : Len(adj_list[n]) >= 2
    /\ result.cost > 0
    /\ result.cost = MinWalkCost(source, target, channel_width)

\* the same query outcome under ChannelGraph.cpp
C30_WitnessCG ==
    /\ impl = "CG" /\ Returned /\ ValidQuery
    /\ Len(result.path) = 3
    /\ ~node_support_convert[result.path[2][1]]
    /\ \A n \in {0, 1, 2} : Len(adj_list[n]) >= 2
    /\ result.cost > 0
    /\ result.cost = MinWalkCost(source, target, channel_width)

====
